---- MODULE Spec2Model ----
(***************************************************************************)
(* A model of the `#[versioning(...)]` attribute macro of versioning-rs:   *)
(* the version-filter expression language (src/src/version.rs) and the     *)
(* per-version filtering of an item tree (src/src/versioning.rs).          *)
(*                                                                         *)
(* Identifiers and string literals are sequences of characters, so that    *)
(* `starts_with` and `==` on strings are different tests.                  *)
(***************************************************************************)
EXTENDS Integers, Sequences, FiniteSets

\* ------------------------------------------------------------------------
\* Bounds of the model
\* ------------------------------------------------------------------------

\* Longest version list given to `#[versioning(...)]`.
MaxVersions == 2

\* Largest filter expression, counted in nodes of the expression tree.
MaxFilterSize == 3

\* The identifiers that may be listed as versions.  "1" is a proper prefix
\* of "10", so a prefix test and an equality test can be told apart.
VersionNames == { <<"1">>, <<"1", "0">> }

\* The string literals that may occur in a `#[version(...)]` filter: the
\* empty string, every version name, and "2", which no version list holds.
Literals == { <<>>, <<"2">> } \cup VersionNames

\* ------------------------------------------------------------------------
\* version.rs: Version, VersionList, VersionFilter
\* ------------------------------------------------------------------------

\* `VersionList(pub Vec<Version>)`: any sequence of identifiers; parse_input
\* pushes every identifier it meets, so a name may repeat.
RECURSIVE SeqsUpTo(_, _)
SeqsUpTo(S, n) ==
    IF n = 0 THEN { <<>> }
    ELSE LET shorter == SeqsUpTo(S, n - 1)
         IN  shorter \cup { Append(s, x) : s \in { t \in shorter : Len(t) = n - 1 }, x \in S }

VersionList == SeqsUpTo(VersionNames, MaxVersions)

\* The variants of `enum VersionFilter`.
PositionalOps == { "AtLeastExcl", "AtLeast", "AtMostExcl", "AtMost" }

Version(ver)     == [op |-> "Version",     lit |-> ver,  args |-> <<>>]
AtLeastExcl(ver) == [op |-> "AtLeastExcl", lit |-> ver,  args |-> <<>>]
AtLeast(ver)     == [op |-> "AtLeast",     lit |-> ver,  args |-> <<>>]
AtMostExcl(ver)  == [op |-> "AtMostExcl",  lit |-> ver,  args |-> <<>>]
AtMost(ver)      == [op |-> "AtMost",      lit |-> ver,  args |-> <<>>]
Not(filter)      == [op |-> "Not",         lit |-> <<>>, args |-> <<filter>>]
Any(vers)        == [op |-> "Any",         lit |-> <<>>, args |-> vers]
All(vers)        == [op |-> "All",         lit |-> <<>>, args |-> vers]

\* All filter expressions of exactly n nodes, and all argument lists whose
\* elements have n nodes together.
RECURSIVE FiltersOfSize(_)
RECURSIVE ArgLists(_)
FiltersOfSize(n) ==
    IF n = 0 THEN {}
    ELSE (IF n = 1
          THEN { [op |-> o, lit |-> l, args |-> <<>>] :
                     o \in PositionalOps \cup { "Version" }, l \in Literals }
          ELSE {})
         \cup { Not(f) : f \in FiltersOfSize(n - 1) }
         \cup { Any(vers) : vers \in ArgLists(n - 1) }
         \cup { All(vers) : vers \in ArgLists(n - 1) }

ArgLists(n) ==
    IF n = 0 THEN { <<>> }
    ELSE UNION { { <<f>> \o rest : f \in FiltersOfSize(k), rest \in ArgLists(n - k) } :
                     k \in 1..n }

VersionFilter == UNION { FiltersOfSize(n) : n \in 1..MaxFilterSize }

\* `str::starts_with`
starts_with(s, prefix) ==
    /\ Len(prefix) <= Len(s)
    /\ \A i \in 1..Len(prefix) : s[i] = prefix[i]

\* `Iterator::position`: the index of the first element equal to `name`,
\* or 0 for `None` (indices count from 1 here).
position(list, name) ==
    IF \E i \in 1..Len(list) : list[i] = name
    THEN CHOOSE i \in 1..Len(list) :
             /\ list[i] = name
             /\ \A j \in 1..(i - 1) : list[j] # name
    ELSE 0

\* A `Result<(), Diagnostic>`: Ok, or the error naming the unknown string.
VerifyOk       == [ok |-> TRUE,  ver |-> <<>>]
VerifyErr(ver) == [ok |-> FALSE, ver |-> ver]

\* `VersionFilter::verify`
RECURSIVE verify(_, _)
RECURSIVE verify_all(_, _, _)

\* `for filter in vers { filter.verify(list)?; }`
verify_all(vers, i, list) ==
    IF i > Len(vers) THEN VerifyOk
    ELSE LET r == verify(vers[i], list)
         IN  IF r.ok THEN verify_all(vers, i + 1, list) ELSE r

\* A verify that takes any prefix of an entry for a known version.
verify_prefix_positional(filter, list) ==
    IF filter.op \in PositionalOps \cup { "Version" }
    THEN IF \E i \in 1..Len(list) : starts_with(list[i], filter.lit)
         THEN VerifyOk ELSE VerifyErr(filter.lit)
    ELSE verify_all(filter.args, 1, list)

\* A verify that never checks a plain version string.
verify_skip_version(filter, list) ==
    IF filter.op = "Version" THEN VerifyOk
    ELSE IF filter.op \in PositionalOps
    THEN IF \E i \in 1..Len(list) : list[i] = filter.lit
         THEN VerifyOk ELSE VerifyErr(filter.lit)
    ELSE verify_all(filter.args, 1, list)

verify(filter, list) ==
    CASE filter.op = "Version" ->
            IF ~(\E i \in 1..Len(list) : starts_with(list[i], filter.lit))
            THEN VerifyErr(filter.lit) ELSE VerifyOk
      [] filter.op \in PositionalOps ->
            IF ~(\E i \in 1..Len(list) : list[i] = filter.lit)
            THEN VerifyErr(filter.lit) ELSE VerifyOk
      [] filter.op = "Not" -> verify_all(filter.args, 1, list)
      [] filter.op = "Any" -> verify_all(filter.args, 1, list)
      [] filter.op = "All" -> verify_all(filter.args, 1, list)

\* `Filter::matches` for `VersionFilter`.  The value is only meaningful when
\* matches_panics is false.
RECURSIVE matches(_, _, _)
RECURSIVE matches_any(_, _, _, _, _)
RECURSIVE matches_all(_, _, _, _, _)

\* `for filter in vers { res = res || filter.matches(list, version); }`
matches_any(vers, i, res, list, version) ==
    IF i > Len(vers) THEN res
    ELSE matches_any(vers, i + 1, res \/ matches(vers[i], list, version), list, version)

\* `for filter in vers { res = res && filter.matches(list, version); }`
matches_all(vers, i, res, list, version) ==
    IF i > Len(vers) THEN res
    ELSE matches_all(vers, i + 1, res /\ matches(vers[i], list, version), list, version)

\* matches with the empty conjunction taken as true.
matches_all_empty_true(filter, list, version) ==
    CASE filter.op = "Version" -> starts_with(version, filter.lit)
      [] filter.op = "AtLeastExcl" -> position(list, version) > position(list, filter.lit)
      [] filter.op = "AtLeast" -> position(list, version) >= position(list, filter.lit)
      [] filter.op = "AtMostExcl" -> position(list, version) < position(list, filter.lit)
      [] filter.op = "AtMost" -> position(list, version) <= position(list, filter.lit)
      [] filter.op = "Not" -> ~matches(filter.args[1], list, version)
      [] filter.op = "Any" -> matches_any(filter.args, 1, FALSE, list, version)
      [] filter.op = "All" -> matches_all(filter.args, 1, TRUE, list, version)

\* matches with the inclusive lower bound made exclusive.
matches_at_least_strict(filter, list, version) ==
    CASE filter.op = "Version" -> starts_with(version, filter.lit)
      [] filter.op = "AtLeastExcl" -> position(list, version) > position(list, filter.lit)
      [] filter.op = "AtLeast" -> position(list, version) > position(list, filter.lit)
      [] filter.op = "AtMostExcl" -> position(list, version) < position(list, filter.lit)
      [] filter.op = "AtMost" -> position(list, version) <= position(list, filter.lit)
      [] filter.op = "Not" -> ~matches(filter.args[1], list, version)
      [] filter.op = "Any" -> matches_any(filter.args, 1, FALSE, list, version)
      [] filter.op = "All" ->
            IF filter.args = <<>> THEN FALSE
            ELSE matches_all(filter.args, 1, TRUE, list, version)

\* matches with the version string compared for equality.
matches_version_exact(filter, list, version) ==
    CASE filter.op = "Version" -> version = filter.lit
      [] filter.op = "AtLeastExcl" -> position(list, version) > position(list, filter.lit)
      [] filter.op = "AtLeast" -> position(list, version) >= position(list, filter.lit)
      [] filter.op = "AtMostExcl" -> position(list, version) < position(list, filter.lit)
      [] filter.op = "AtMost" -> position(list, version) <= position(list, filter.lit)
      [] filter.op = "Not" -> ~matches(filter.args[1], list, version)
      [] filter.op = "Any" -> matches_any(filter.args, 1, FALSE, list, version)
      [] filter.op = "All" ->
            IF filter.args = <<>> THEN FALSE
            ELSE matches_all(filter.args, 1, TRUE, list, version)

\* matches with the inclusive upper bound made exclusive.
matches_at_most_strict(filter, list, version) ==
    CASE filter.op = "Version" -> starts_with(version, filter.lit)
      [] filter.op = "AtLeastExcl" -> position(list, version) > position(list, filter.lit)
      [] filter.op = "AtLeast" -> position(list, version) >= position(list, filter.lit)
      [] filter.op = "AtMostExcl" -> position(list, version) < position(list, filter.lit)
      [] filter.op = "AtMost" -> position(list, version) < position(list, filter.lit)
      [] filter.op = "Not" -> ~matches(filter.args[1], list, version)
      [] filter.op = "Any" -> matches_any(filter.args, 1, FALSE, list, version)
      [] filter.op = "All" ->
            IF filter.args = <<>> THEN FALSE
            ELSE matches_all(filter.args, 1, TRUE, list, version)

\* matches with the negation lost.
matches_not_dropped(filter, list, version) ==
    CASE filter.op = "Version" -> starts_with(version, filter.lit)
      [] filter.op = "AtLeastExcl" -> position(list, version) > position(list, filter.lit)
      [] filter.op = "AtLeast" -> position(list, version) >= position(list, filter.lit)
      [] filter.op = "AtMostExcl" -> position(list, version) < position(list, filter.lit)
      [] filter.op = "AtMost" -> position(list, version) <= position(list, filter.lit)
      [] filter.op = "Not" -> matches(filter.args[1], list, version)
      [] filter.op = "Any" -> matches_any(filter.args, 1, FALSE, list, version)
      [] filter.op = "All" ->
            IF filter.args = <<>> THEN FALSE
            ELSE matches_all(filter.args, 1, TRUE, list, version)

matches(filter, list, version) ==
    CASE filter.op = "Version" -> starts_with(version, filter.lit)
      [] filter.op = "AtLeastExcl" -> position(list, version) > position(list, filter.lit)
      [] filter.op = "AtLeast" -> position(list, version) >= position(list, filter.lit)
      [] filter.op = "AtMostExcl" -> position(list, version) < position(list, filter.lit)
      [] filter.op = "AtMost" -> position(list, version) <= position(list, filter.lit)
      [] filter.op = "Not" -> ~matches(filter.args[1], list, version)
      [] filter.op = "Any" -> matches_any(filter.args, 1, FALSE, list, version)
      [] filter.op = "All" ->
            IF filter.args = <<>> THEN FALSE
            ELSE matches_all(filter.args, 1, TRUE, list, version)

\* Whether `matches` panics: a positional operator whose literal or whose
\* candidate `position` does not find.  `||` and `&&` do not evaluate their
\* right operand once the left one has decided the result.
RECURSIVE matches_panics(_, _, _)
RECURSIVE panics_any(_, _, _, _, _)
RECURSIVE panics_all(_, _, _, _, _)

panics_any(vers, i, res, list, version) ==
    IF i > Len(vers) THEN FALSE
    ELSE IF res THEN FALSE
    ELSE \/ matches_panics(vers[i], list, version)
         \/ panics_any(vers, i + 1, matches(vers[i], list, version), list, version)

panics_all(vers, i, res, list, version) ==
    IF i > Len(vers) THEN FALSE
    ELSE IF ~res THEN FALSE
    ELSE \/ matches_panics(vers[i], list, version)
         \/ panics_all(vers, i + 1, matches(vers[i], list, version), list, version)

matches_panics(filter, list, version) ==
    CASE filter.op = "Version" -> FALSE
      [] filter.op \in PositionalOps ->
            position(list, filter.lit) = 0 \/ position(list, version) = 0
      [] filter.op = "Not" -> matches_panics(filter.args[1], list, version)
      [] filter.op = "Any" -> panics_any(filter.args, 1, FALSE, list, version)
      [] filter.op = "All" ->
            IF filter.args = <<>> THEN FALSE
            ELSE panics_all(filter.args, 1, TRUE, list, version)

\* ------------------------------------------------------------------------
\* versioning.rs: the attribute input and the item tree (syn's `Meta`,
\* `Attribute`, `Item`, `Field`, `Variant`, `TraitItem`, `ForeignItem`,
\* `ImplItem`)
\* ------------------------------------------------------------------------

\* Longest attribute list of a node that is read and written on its own.
MaxAttrs == 3

\* Longest input of `#[versioning(...)]` in which versions, settings and
\* other metas are mixed freely.
MaxMetas == 3

\* Deepest nesting of parentheses in the tokens of a `#[version(...)]`, and
\* the most tokens between one pair of parentheses.
MaxTokenDepth == 2
MaxGroupLen == 2

\* Largest item of the invocations whose termination is checked.
MaxLiveItems == 2

\* Largest item given to the macro, counted in nodes (the item itself, its
\* nested items, fields, variants and members).
MaxItems == 3

\* `struct Options` and its `Default`.
Options == [features : BOOLEAN, nest_toplevel_modules : BOOLEAN]
DefaultOptions == [features |-> FALSE, nest_toplevel_modules |-> FALSE]

\* The `Meta`s of the macro's attribute input: a path that is an identifier
\* (`ident` is what `get_ident` returns, <<>> for `None`), or a
\* `key = value` setting.
MetaPath(ident) ==
    [meta |-> "Path", ident |-> <<ident>>, key |-> "", value |-> "", source_text |-> <<>>]
MetaNameValue(key, value) ==
    [meta |-> "NameValue", ident |-> <<>>, key |-> key, value |-> value, source_text |-> <<key>>]

\* A setting whose key has a span without source text (`source_text()` is
\* `None`), as tokens made by another macro may have; a path that is not
\* one identifier, such as `a::b`; and a `Meta::List`, such as `v1(..)`.
MetaNameValueNoSource(key, value) ==
    [meta |-> "NameValue", ident |-> <<>>, key |-> key, value |-> value, source_text |-> <<>>]
MetaPathQualified ==
    [meta |-> "Path", ident |-> <<>>, key |-> "", value |-> "", source_text |-> <<>>]
MetaList ==
    [meta |-> "List", ident |-> <<>>, key |-> "", value |-> "", source_text |-> <<>>]

\* The settings that switch on the options of `o`.
SettingsOf(o) ==
    (IF o.features THEN << MetaNameValue("features", "true") >> ELSE <<>>)
    \o (IF o.nest_toplevel_modules
        THEN << MetaNameValue("nest_toplevel_modules", "true") >> ELSE <<>>)

\* The attribute inputs of the invocations explored: a list of versions,
\* followed by the settings of some options.
MacroInputs ==
    { [i \in 1..Len(vl) |-> MetaPath(vl[i])] \o SettingsOf(o) : vl \in VersionList, o \in Options }

\* The attribute inputs explored with the smallest items: every list of up
\* to MaxMetas of these, so that settings come before, between and after
\* the versions, are repeated, and are not valid.
Metas ==
    { MetaPath(<<"1">>), MetaPath(<<"1", "0">>),
      MetaNameValue("features", "true"), MetaNameValue("features", "false"),
      MetaNameValue("nest_toplevel_modules", "true"),
      MetaNameValue("features", "1"), MetaNameValue("nest_toplevel_modules", "yes"),
      MetaNameValue("colour", "true"), MetaNameValueNoSource("colour", "true"),
      MetaPathQualified, MetaList }

MixedInputs == SeqsUpTo(Metas, MaxMetas)

\* The attributes a node may carry: `#[version(<filter>)]` and `#[doc = ..]`.
NoArgs == [op |-> "", lit |-> <<>>, args |-> <<>>]
VersionAttr(f) == [path |-> "version", meta |-> "List",      args |-> f]
DocAttr        == [path |-> "doc",     meta |-> "NameValue", args |-> NoArgs]

\* `#[version(...)]` with tokens that `l.parse_args()` does not parse as a
\* filter, such as `#[version(since("1"))]`.
Unparsable     == [op |-> "?", lit |-> <<>>, args |-> <<>>]
BadVersionAttr == VersionAttr(Unparsable)

\* The filters attached to the nodes of the trees explored: a prefix that
\* only "10" has, a bound on "1", a bound on "2", which no version list
\* holds, and the empty conjunction.
ItemFilters == { Version(<<"1", "0">>), AtMost(<<"1">>), AtLeast(<<"2">>), All(<<>>) }

\* The attribute lists of the nodes explored: a doc comment, and possibly a
\* `#[version(...)]` after it, which may be one that does not parse.
AttrLists ==
    { << DocAttr >>, << DocAttr, BadVersionAttr >> }
        \cup { << DocAttr, VersionAttr(f) >> : f \in ItemFilters }

\* The `Item` variants: those with nested nodes, and the others, of which
\* "Const" stands for every variant that has a visibility and is copied
\* (`Const`, `Fn`, `Static`, `TraitAlias`, `Type`, `Use`).
ItemKinds ==
    { "Mod", "Enum", "Struct", "Union", "Trait", "ForeignMod", "Impl", "Const", "ExternCrate",
      "Macro", "Verbatim" }

\* The items nested in a module of the trees explored.
NestedKinds == { "Mod", "Struct", "ForeignMod", "Impl", "Const" }

\* The kinds of the nodes nested in a node of the given kind.
ChildKinds(kind) ==
    CASE kind = "Mod"        -> NestedKinds
      [] kind = "Enum"       -> { "Variant" }
      [] kind = "Variant"    -> { "Field" }
      [] kind = "Struct"     -> { "Field" }
      [] kind = "Union"      -> { "Field" }
      [] kind = "Trait"      -> { "TraitItem", "TraitItemVerbatim" }
      [] kind = "ForeignMod" -> { "ForeignItem", "ForeignItemVerbatim" }
      [] kind = "Impl"       -> { "ImplItem", "ImplItemVerbatim" }
      [] OTHER               -> {}

\* The `Verbatim` variants carry tokens only: no attributes.
VerbatimKinds == { "Verbatim", "TraitItemVerbatim", "ForeignItemVerbatim", "ImplItemVerbatim" }

\* `item_vis`: the `Item` variants without a visibility.
NoVisKinds == { "ForeignMod", "Impl", "Macro", "Verbatim" }

\* The visibility written on a node of the trees explored: `pub(crate)`
\* where the syntax has one, none otherwise.
DeclaredVis(kind) ==
    IF kind \in NoVisKinds \cup { "Variant", "TraitItem" } \cup VerbatimKinds
    THEN "none" ELSE "pub(crate)"

\* `Fields::Unit` with no field, `Fields::Named` or `Fields::Unnamed` with
\* some (a union's fields are always named).
FieldShapes(kind, nfields) ==
    CASE kind \in { "Struct", "Variant" } ->
            IF nfields = 0 THEN { "Unit" } ELSE { "Named", "Unnamed" }
      [] kind = "Union" -> { "Named" }
      [] OTHER -> { "none" }

\* What is written after a node's name, as far as the code takes it apart:
\* the `as <name>` of an `extern crate`, if there is one.
Renames(kind) ==
    IF kind = "ExternCrate" THEN { <<>>, << "as", "x" >> } ELSE { <<>> }

\* The name of the j-th nested node.
Labels == << "a", "b", "c", "d", "e", "f" >>

\* A node: `ident` is its name (for a node without one, the tokens that make
\* it up); it is the path to the node, so no two nodes share it.
\* Nodes(kinds, n, path): the trees of n nodes whose root is of one of the
\* kinds.  ChildLists(kinds, n, path, j): the lists of nested nodes, n nodes
\* in all, the first of which is the j-th node below `path`.
RECURSIVE Nodes(_, _, _)
RECURSIVE ChildLists(_, _, _, _)
Nodes(kinds, n, path) ==
    IF n = 0 THEN {}
    ELSE UNION { { [kind |-> k, attrs |-> a, vis |-> DeclaredVis(k), ident |-> path,
                    fields |-> sh, rename |-> rn, items |-> cs] :
                       a \in (IF k \in VerbatimKinds THEN { <<>> } ELSE AttrLists),
                       cs \in ChildLists(ChildKinds(k), n - 1, path, 1),
                       sh \in FieldShapes(k, n - 1),
                       rn \in Renames(k) } :
                 k \in kinds }

ChildLists(kinds, n, path, j) ==
    IF n = 0 THEN { <<>> }
    ELSE UNION { { <<c>> \o rest :
                       c \in Nodes(kinds, k, Append(path, Labels[j])),
                       rest \in ChildLists(kinds, n - k, path, j + 1) } :
                 k \in 1..n }

\* A node of the given kind, attributes and nested nodes at `path`.
NodeAt(kind, attrs, path, shape, items) ==
    [kind |-> kind, attrs |-> attrs, vis |-> DeclaredVis(kind), ident |-> path,
     fields |-> shape, rename |-> <<>>, items |-> items]

\* Two nested nodes of a kind at `path`, each with attributes of its own.
PairsAt(kind, path) ==
    { << NodeAt(kind, a, Append(path, Labels[1]), "none", <<>>),
         NodeAt(kind, b, Append(path, Labels[2]), "none", <<>>) >> :
          a \in AttrLists, b \in AttrLists }

\* Items in which a list of two nested nodes is one level down: an enum
\* with a variant of two fields, and a module with an impl block or a
\* foreign block of two members.
TwoMemberItems ==
    { NodeAt("Enum", << DocAttr >>, <<"r">>, "none",
             << NodeAt("Variant", << DocAttr >>, <<"r", Labels[1]>>, sh, fs) >>) :
          sh \in { "Named", "Unnamed" }, fs \in PairsAt("Field", <<"r", Labels[1]>>) }
    \cup
    UNION { { NodeAt("Mod", << DocAttr >>, <<"r">>, "none",
                     << NodeAt(b, << DocAttr >>, <<"r", Labels[1]>>, "none", ms) >>) :
                  ms \in PairsAt(CHOOSE m \in ChildKinds(b) : m \notin VerbatimKinds,
                                 <<"r", Labels[1]>>) } :
            b \in { "Impl", "ForeignMod" } }

\* The items of one node and no `#[version(...)]`.
PlainItems == { n \in Nodes(ItemKinds, 1, <<"r">>) : n.attrs = << DocAttr >> }

\* The items the macro is applied to.
Items == UNION ({ Nodes(ItemKinds, n, <<"r">>) : n \in 1..MaxItems } \cup { TwoMemberItems })

\* ------------------------------------------------------------------------
\* versioning.rs: parse_input, get_version_attr, generate_attrs and the
\* generate_filtered_* functions
\* ------------------------------------------------------------------------

\* `Result<Option<TokenStream2>, Diagnostic>`: `some` is <<>> for `None` and
\* <<stream>> for `Some(stream)`; `err` is the diagnostic's message, `ver`
\* the string it quotes.
Ok(some)      == [err |-> "",  ver |-> <<>>, some |-> some]
Err(err, ver) == [err |-> err, ver |-> ver,  some |-> <<>>]

UnknownVersion    == "Unknown version string"
FilterParseError  == "Expected string or operator function"
ForeignModIsBare  == "Cannot use versioning on a foreign block"
ImplIsBare        == "Cannot use versioning on an impl block"
Panicked          == "panic: Encountered unknown version"

\* The messages of parse_input's diagnostics about the settings.
UnknownParameter == "Unknown configuration parameter"
FeaturesNotBool  == "features option must be given a boolean"
NestNotBool      == "nest_toplevel_modules option must be given a boolean"

\* `parse_input`: the result is the version list and the options, or the
\* message of the diagnostic and, for an unknown setting, the text it
\* quotes: the source text of the key, or `???` when the span has none.
RECURSIVE parse_input_from(_, _, _, _)
parse_input_from(metas, i, vl, opts) ==
    IF i > Len(metas) THEN [err |-> "", versions |-> vl, opts |-> opts, ver |-> <<>>]
    ELSE LET meta == metas[i]
             fail(msg) == [err |-> msg, versions |-> <<>>, opts |-> DefaultOptions, ver |-> <<>>]
             unknown(msg) == [err |-> msg, versions |-> <<>>, opts |-> DefaultOptions,
                              ver |-> IF meta.source_text = <<>> THEN << "???" >>
                                      ELSE meta.source_text]
         IN  CASE meta.meta = "Path" ->
                    IF meta.ident # <<>>
                    THEN parse_input_from(metas, i + 1, Append(vl, meta.ident[1]), opts)
                    ELSE fail("Given version number is not a valid identifier")
               [] meta.meta = "NameValue" ->
                    IF meta.key = "features"
                    THEN IF meta.value \in { "true", "false" }
                         THEN parse_input_from(metas, i + 1, vl,
                                  [opts EXCEPT !.features = (meta.value = "true")])
                         ELSE fail(FeaturesNotBool)
                    ELSE IF meta.key = "nest_toplevel_modules"
                    THEN IF meta.value \in { "true", "false" }
                         THEN parse_input_from(metas, i + 1, vl,
                                  [opts EXCEPT !.nest_toplevel_modules = (meta.value = "true")])
                         ELSE fail(NestNotBool)
                    ELSE unknown(UnknownParameter)
               [] meta.meta = "List" ->
                    fail("Not a valid options to the versioning macro")

\* A parse_input that passes over the settings it does not know.
parse_input_skipping_unknown(metas) ==
    LET known(meta) == meta.meta = "NameValue" =>
                           meta.key \in { "features", "nest_toplevel_modules" }
    IN  parse_input_from(SelectSeq(metas, known), 1, <<>>, DefaultOptions)

parse_input(metas) == parse_input_from(metas, 1, <<>>, DefaultOptions)

\* `get_version_attr`: the filter of the first `#[version(...)]` list
\* attribute, or the diagnostic if its arguments do not parse; `None` if
\* there is no such attribute.
RECURSIVE get_version_attr_from(_, _)
get_version_attr_from(attrs, i) ==
    IF i > Len(attrs) THEN Ok(<<>>)
    ELSE IF attrs[i].meta = "List" /\ attrs[i].path = "version"
    THEN IF attrs[i].args = Unparsable THEN Err(FilterParseError, <<>>)
         ELSE Ok(<< attrs[i].args >>)
    ELSE get_version_attr_from(attrs, i + 1)

get_version_attr(attrs) == get_version_attr_from(attrs, 1)

\* `generate_attrs`: every attribute but those whose path is `version`.
generate_attrs_first_only(attrs) ==
    LET lists == { i \in 1..Len(attrs) : attrs[i].meta = "List" /\ attrs[i].path = "version" }
        first == IF lists = {} THEN 0 ELSE CHOOSE i \in lists : \A j \in lists : i <= j
    IN  [k \in 1..(Len(attrs) - (IF first = 0 THEN 0 ELSE 1)) |->
            IF first = 0 \/ k < first THEN attrs[k] ELSE attrs[k + 1]]

generate_attrs_lists_only(attrs) ==
    LET not_version_list(attr) == ~(attr.meta = "List" /\ attr.path = "version")
    IN  SelectSeq(attrs, not_version_list)

generate_attrs(attrs) ==
    LET not_version(attr) == attr.path # "version"
    IN  SelectSeq(attrs, not_version)

\* `item_attrs`, `trait_item_attrs`, `foreign_item_attrs`, `impl_item_attrs`:
\* <<>> for `None`, which is what a `Verbatim` node gives.
item_attrs_of_items_only(item) ==
    IF item.kind \in VerbatimKinds \cup { "TraitItem", "ForeignItem", "ImplItem" }
    THEN <<>> ELSE << item.attrs >>

item_attrs(item) == IF item.kind \in VerbatimKinds THEN <<>> ELSE << item.attrs >>

\* `item_vis`: <<>> for `None`.
item_vis(item) == IF item.kind \in NoVisKinds THEN <<>> ELSE << item.vis >>

\* The opening of each generate_filtered_* function, for the filter `f` that
\* get_version_attr returned: `filter.verify(versions)?;
\* if !filter.matches(versions, version) { return Ok(None); }`.
\* The result is the diagnostic, "drop" or "keep".
matched_filter(f, vl, ver) ==
    IF matches_panics(f, vl, ver) THEN Err(Panicked, <<>>)
    ELSE IF ~matches(f, vl, ver) THEN Ok(<<"drop">>)
    ELSE Ok(<<"keep">>)

\* A check that evaluates the filter whatever `verify` returned.
verified_filter_unchecked(r, f, vl, ver) == matched_filter(f, vl, ver)

verified_filter(r, f, vl, ver) ==
    IF ~r.ok THEN Err(UnknownVersion, r.ver) ELSE matched_filter(f, vl, ver)

check_filter(f, vl, ver) ==
    IF f.err # "" THEN f
    ELSE IF f.some = <<>> THEN Ok(<<"keep">>)
    ELSE verified_filter(verify(f.some[1], vl), f.some[1], vl, ver)

\* `if let Some(attrs) = item_attrs(item) { if let Some(filter) =
\* get_version_attr(attrs)? { ... } }`
check_attrs(attrs, vl, ver) ==
    IF attrs = <<>> THEN Ok(<<"keep">>)
    ELSE check_filter(get_version_attr(attrs[1]), vl, ver)

\* The `as <name>` of an `extern crate` as it is serialized:
\* `quote! { #as_token, #name }`.
serialized_rename(node) ==
    IF node.rename = <<>> THEN <<>> ELSE << node.rename[1], ",", node.rename[2] >>

\* The node as it is serialized: without `#[version]` attributes, with the
\* given visibility, name and nested nodes.
Serialized(node, vis, ident, items) ==
    [kind |-> node.kind, attrs |-> generate_attrs(node.attrs), vis |-> vis, ident |-> ident,
     fields |-> node.fields, rename |-> serialized_rename(node), items |-> items]

\* The visibility a node is serialized with: `Visibility::Public` under
\* force_public for the items that have one, the node's own otherwise.
serialized_vis_always_public(node, force_public) ==
    IF node.kind \in ItemKinds \ NoVisKinds THEN "pub" ELSE node.vis

serialized_vis(node, force_public) ==
    IF force_public /\ node.kind \in ItemKinds \ NoVisKinds THEN "pub" ELSE node.vis

\* The name a node is serialized with: the version's for a module that is
\* toplevel and not wrapped, the node's own otherwise.
serialized_ident_kept(node, ver, toplevel, force_public) == node.ident

serialized_ident(node, ver, toplevel, force_public) ==
    IF node.kind = "Mod" /\ toplevel /\ ~force_public THEN ver ELSE node.ident

\* The end of each generate_filtered_* function, given the result `cs` of the
\* loop over the nested nodes: its diagnostic, or the node with those of its
\* nested nodes that are kept.
serialized_dropping_empty_struct(node, cs, vis, ident) ==
    IF cs.err # "" THEN cs
    ELSE IF node.kind = "Struct" /\ node.items # <<>> /\ cs.some = <<>> THEN Ok(<<>>)
    ELSE Ok(<< Serialized(node, vis, ident, cs.some) >>)

serialized_dropping_empty_variant(node, cs, vis, ident) ==
    IF cs.err # "" THEN cs
    ELSE IF node.kind = "Variant" /\ node.items # <<>> /\ cs.some = <<>> THEN Ok(<<>>)
    ELSE Ok(<< Serialized(node, vis, ident, cs.some) >>)

serialized(node, cs, vis, ident) ==
    IF cs.err # "" THEN cs
    ELSE Ok(<< Serialized(node, vis, ident, cs.some) >>)

\* `generate_filtered_item` and, for the nodes nested in an item,
\* `generate_filtered_field`, `generate_filtered_variant`,
\* `generate_filtered_trait_item`, `generate_filtered_foreign_item` and
\* `generate_filtered_impl_item`, which all have its shape: the node's own
\* filter first, then the nested nodes, then the serialization.
RECURSIVE generate_filtered(_, _, _, _, _)
RECURSIVE filtered_children(_, _, _, _, _)

\* The loops over the nested nodes: `if let Some(stream) = generate_..(..)?
\* { children.extend(stream); }`.  The result is the diagnostic of the first
\* nested node that fails, or the streams of those kept, in order.
extended_children_until_dropped(r, items, i, children, vl, ver) ==
    IF r.err # "" THEN r
    ELSE IF r.some = <<>> THEN Ok(children)
    ELSE filtered_children(items, i + 1, children \o r.some, vl, ver)

extended_children(r, items, i, children, vl, ver) ==
    IF r.err # "" THEN r
    ELSE filtered_children(items, i + 1, children \o r.some, vl, ver)

filtered_children_forcing_public(items, i, children, vl, ver) ==
    IF i > Len(items) THEN Ok(children)
    ELSE extended_children(generate_filtered(items[i], vl, ver, FALSE, TRUE),
                           items, i, children, vl, ver)

filtered_children(items, i, children, vl, ver) ==
    IF i > Len(items) THEN Ok(children)
    ELSE extended_children(generate_filtered(items[i], vl, ver, FALSE, FALSE),
                           items, i, children, vl, ver)

\* What follows the check `c` of the node's own filter, with the nested
\* nodes looked at although the node itself is filtered out.
recursed_unconditionally(c, node, vl, ver, toplevel, force_public) ==
    IF c.err # "" THEN c
    ELSE IF filtered_children(node.items, 1, <<>>, vl, ver).err # ""
    THEN filtered_children(node.items, 1, <<>>, vl, ver)
    ELSE IF c.some = <<"drop">> THEN Ok(<<>>)
    ELSE IF node.kind = "ForeignMod" /\ force_public THEN Err(ForeignModIsBare, <<>>)
    ELSE IF node.kind = "Impl" /\ force_public THEN Err(ImplIsBare, <<>>)
    ELSE IF node.kind \in VerbatimKinds THEN Ok(<< node >>)
    ELSE serialized(node, filtered_children(node.items, 1, <<>>, vl, ver),
                    serialized_vis(node, force_public),
                    serialized_ident(node, ver, toplevel, force_public))

\* What follows the check `c` of the node's own filter, with a block
\* refused before its filter is looked at.
recursed_refusing_first(c, node, vl, ver, toplevel, force_public) ==
    IF node.kind = "ForeignMod" /\ force_public THEN Err(ForeignModIsBare, <<>>)
    ELSE IF node.kind = "Impl" /\ force_public THEN Err(ImplIsBare, <<>>)
    ELSE IF c.err # "" THEN c
    ELSE IF c.some = <<"drop">> THEN Ok(<<>>)
    ELSE IF node.kind \in VerbatimKinds THEN Ok(<< node >>)
    ELSE serialized(node, filtered_children(node.items, 1, <<>>, vl, ver),
                    serialized_vis(node, force_public),
                    serialized_ident(node, ver, toplevel, force_public))

\* What follows the check `c` of the node's own filter.
recursed(c, node, vl, ver, toplevel, force_public) ==
    IF c.err # "" THEN c
    ELSE IF c.some = <<"drop">> THEN Ok(<<>>)
    ELSE IF node.kind = "ForeignMod" /\ force_public THEN Err(ForeignModIsBare, <<>>)
    ELSE IF node.kind = "Impl" /\ force_public THEN Err(ImplIsBare, <<>>)
    ELSE IF node.kind \in VerbatimKinds THEN Ok(<< node >>)
    ELSE serialized(node, filtered_children(node.items, 1, <<>>, vl, ver),
                    serialized_vis(node, force_public),
                    serialized_ident(node, ver, toplevel, force_public))

generate_filtered(node, vl, ver, toplevel, force_public) ==
    recursed(check_attrs(item_attrs(node), vl, ver), node, vl, ver, toplevel, force_public)

generate_filtered_item(item, vl, ver, toplevel, force_public) ==
    generate_filtered(item, vl, ver, toplevel, force_public)

\* The module that `call` wraps a filtered item in, and the
\* `#[cfg(feature = "<version>")]` that it puts in front of it.
WrapInMod(vis, ident, stream) ==
    [kind |-> "Mod", attrs |-> <<>>, vis |-> vis, ident |-> ident, fields |-> "none",
     rename |-> <<>>, items |-> << stream >>]

CfgFeature(feature) ==
    [path |-> "cfg", meta |-> "List", args |-> [op |-> "feature", lit |-> feature, args |-> <<>>]]

WithCfg(feature, stream) == [stream EXCEPT !.attrs = << CfgFeature(feature) >> \o @]

\* The body of the loop of `call` for one version, given the result `r` of
\* generate_filtered_item: the diagnostic, or the stream pushed to `impls`
\* (<<>> if the item is filtered out).
wrapped_unless_mod(stream, item, opts, ver) ==
    IF item.kind # "Mod"
    THEN WrapInMod(IF item_vis(item) # <<>> THEN item_vis(item)[1] ELSE "inherited", ver, stream)
    ELSE stream

wrapped_as_public(stream, item, opts, ver) ==
    IF item.kind # "Mod" \/ opts.nest_toplevel_modules
    THEN WrapInMod("pub", ver, stream)
    ELSE stream

wrapped(stream, item, opts, ver) ==
    IF item.kind # "Mod" \/ opts.nest_toplevel_modules
    THEN WrapInMod(IF item_vis(item) # <<>> THEN item_vis(item)[1] ELSE "inherited", ver, stream)
    ELSE stream

gated_always(stream, opts, ver) == WithCfg(ver, stream)

gated(stream, opts, ver) ==
    IF opts.features THEN WithCfg(ver, stream) ELSE stream

pushed(r, item, opts, ver) ==
    IF r.err # "" THEN r
    ELSE IF r.some = <<>> THEN Ok(<<>>)
    ELSE Ok(<< gated(wrapped(r.some[1], item, opts, ver), opts, ver) >>)

call_version(item, vl, opts, ver) ==
    pushed(generate_filtered_item(item, vl, ver, TRUE,
                                  item.kind # "Mod" \/ opts.nest_toplevel_modules),
           item, opts, ver)

\* ------------------------------------------------------------------------
\* State
\* ------------------------------------------------------------------------

VARIABLES
    attrs,      \* call: the tokens of the macro's attribute, as `Meta`s
    item,       \* call: the item the macro is applied to
    versions,   \* the VersionList of the invocation
    opts,       \* call: the Options of the invocation
    pc,         \* call: "parse", "loop" or "done"
    vi,         \* call: the index in `versions` of the loop's next version
    impls,      \* call: the streams pushed so far
    result,     \* call: what the invocation returned
    version,    \* the Version a filter is being evaluated for
    filter,     \* the VersionFilter read from a `#[version(...)]` attribute
    fpc,        \* where the filtering of the attributed field stands
    verified,   \* what `filter.verify(versions)` returned
    matched,    \* what `filter.matches(versions, version)` returned
    node_attrs, \* the attributes of the node that is being re-emitted
    apc,        \* where the handling of the node's attributes stands
    found,      \* what `get_version_attr(&attrs)` returned
    kept,       \* the attributes `generate_attrs(&attrs)` put in the stream
    input,      \* the tokens between the parentheses of a `#[version(...)]`
    ppc,        \* where the parsing of these tokens stands
    parsed      \* what `VersionFilter::parse(input)` returned

callVars   == <<attrs, item, opts, pc, vi, impls, result>>
filterVars == <<version, filter, fpc, verified, matched>>
attrVars   == <<node_attrs, apc, found, kept>>
parseVars  == <<input, ppc, parsed>>
vars == <<attrs, item, versions, opts, pc, vi, impls, result,
          version, filter, fpc, verified, matched, node_attrs, apc, found, kept,
          input, ppc, parsed>>

\* What `call` returns: the diagnostic, or the streams of `impls`.
NoResult     == [err |-> "",  ver |-> <<>>, out |-> <<>>]
CallOk(out)  == [err |-> "",  ver |-> <<>>, out |-> out]
CallErrKeepingImpls(r) == [err |-> r.err, ver |-> r.ver, out |-> impls]
CallErr(r)   == [err |-> r.err, ver |-> r.ver, out |-> <<>>]

\* The variables of `call` while a single field's filter is explored, and
\* those of the field's filter while `call` is.
CallIdle ==
    /\ attrs = <<>>
    /\ item = [kind |-> "Verbatim", attrs |-> <<>>, vis |-> "none", ident |-> <<>>,
               fields |-> "none", rename |-> <<>>, items |-> <<>>]
    /\ opts = DefaultOptions
    /\ pc = "idle"
    /\ vi = 0
    /\ impls = <<>>
    /\ result = NoResult

FilterIdle ==
    /\ version = <<>>
    /\ filter = NoArgs
    /\ fpc = "idle"
    /\ verified = VerifyOk
    /\ matched = FALSE

\* The variables of a node's attributes while `call` or a field's filter
\* is explored.
AttrsIdle ==
    /\ node_attrs = <<>>
    /\ apc = "idle"
    /\ found = Ok(<<>>)
    /\ kept = <<>>

\* The variables of the filter parser while something else is explored.
NoTokens == [tok |-> "", name |-> "", text |-> <<>>, inner |-> <<>>]
ParseIdle ==
    /\ input = NoTokens
    /\ ppc = "idle"
    /\ parsed = Ok(<<>>)

\* ------------------------------------------------------------------------
\* versioning.rs, call
\* ------------------------------------------------------------------------

Init ==
    /\ \/ /\ item \in Items
          /\ attrs \in MacroInputs
       \/ /\ item \in PlainItems
          /\ attrs \in MixedInputs
    /\ versions = <<>>
    /\ opts = DefaultOptions
    /\ pc = "parse"
    /\ vi = 0
    /\ impls = <<>>
    /\ result = NoResult
    /\ FilterIdle
    /\ AttrsIdle
    /\ ParseIdle

\* `let (versions, opts) = parse_input(attrs)?;`
ParseInput ==
    /\ pc = "parse"
    /\ LET r == parse_input(attrs)
       IN  IF r.err # ""
           THEN /\ pc' = "done"
                /\ result' = CallErr([err |-> r.err, ver |-> r.ver])
                /\ UNCHANGED <<versions, opts, vi>>
           ELSE /\ pc' = "loop"
                /\ versions' = r.versions
                /\ opts' = r.opts
                /\ vi' = 1
                /\ UNCHANGED result
    /\ UNCHANGED <<attrs, item, impls>>
    /\ UNCHANGED filterVars
    /\ UNCHANGED attrVars
    /\ UNCHANGED parseVars

\* One turn of `for version in &versions.0 { ... }`, `r` being what the
\* body of the loop gives for the version.
FilterVersionToBreaking(r) ==
    IF r.err # ""
    THEN /\ pc' = "done"
         /\ result' = CallErr(r)
         /\ UNCHANGED <<vi, impls>>
    ELSE /\ impls' = impls \o r.some
         /\ vi' = IF r.some = <<>> THEN Len(versions) + 1 ELSE vi + 1
         /\ UNCHANGED <<pc, result>>

\* A turn of the loop in which a variant takes over the attributes of the
\* variant pushed before it.
FilterVersionToCarrying(r) ==
    IF r.err # ""
    THEN /\ pc' = "done"
         /\ result' = CallErr(r)
         /\ UNCHANGED <<vi, impls>>
    ELSE /\ impls' = impls \o (IF impls = <<>> \/ r.some = <<>> THEN r.some
                                ELSE << [r.some[1] EXCEPT !.attrs = impls[Len(impls)].attrs] >>)
         /\ vi' = vi + 1
         /\ UNCHANGED <<pc, result>>

\* A turn of the loop that starts the loop again when the item is filtered
\* out for the version.
FilterVersionToRestarting(r) ==
    IF r.err # ""
    THEN /\ pc' = "done"
         /\ result' = CallErr(r)
         /\ UNCHANGED <<vi, impls>>
    ELSE /\ impls' = IF r.some = <<>> THEN <<>> ELSE impls \o r.some
         /\ vi' = IF r.some = <<>> THEN 1 ELSE vi + 1
         /\ UNCHANGED <<pc, result>>

FilterVersionTo(r) ==
    IF r.err # ""
    THEN /\ pc' = "done"
         /\ result' = CallErr(r)
         /\ UNCHANGED <<vi, impls>>
    ELSE /\ impls' = impls \o r.some
         /\ vi' = vi + 1
         /\ UNCHANGED <<pc, result>>

FilterVersion ==
    /\ pc = "loop"
    /\ vi <= Len(versions)
    /\ FilterVersionTo(call_version(item, versions, opts, versions[vi]))
    /\ UNCHANGED <<attrs, item, versions, opts>>
    /\ UNCHANGED filterVars
    /\ UNCHANGED attrVars
    /\ UNCHANGED parseVars

\* `Ok(quote! { #(#impls)* })`
Return ==
    /\ pc = "loop"
    /\ vi > Len(versions)
    /\ pc' = "done"
    /\ result' = CallOk(impls)
    /\ UNCHANGED <<attrs, item, versions, opts, vi, impls>>
    /\ UNCHANGED filterVars
    /\ UNCHANGED attrVars
    /\ UNCHANGED parseVars

Next == ParseInput \/ FilterVersion \/ Return

Spec == Init /\ [][Next]_vars

\* The invocations on the items of at most MaxLiveItems nodes, each step of
\* which is taken: `call` is straight-line code and a loop, run to its end
\* by the compiler that expands the macro.
InitLive ==
    /\ item \in UNION { Nodes(ItemKinds, n, <<"r">>) : n \in 1..MaxLiveItems }
    /\ attrs \in MacroInputs
    /\ versions = <<>>
    /\ opts = DefaultOptions
    /\ pc = "parse"
    /\ vi = 0
    /\ impls = <<>>
    /\ result = NoResult
    /\ FilterIdle
    /\ AttrsIdle
    /\ ParseIdle

SpecLive == InitLive /\ [][Next]_vars /\ WF_vars(Next)

\* ------------------------------------------------------------------------
\* versioning.rs, generate_filtered_field: the filter of one attributed
\* field, verified against the version list and then matched
\* ------------------------------------------------------------------------

InitFilter ==
    /\ versions \in VersionList
    /\ version \in { versions[i] : i \in 1..Len(versions) }
    /\ filter \in VersionFilter
    /\ fpc = "verify"
    /\ verified = VerifyOk
    /\ matched = FALSE
    /\ CallIdle
    /\ AttrsIdle
    /\ ParseIdle

\* `filter.verify(versions)?;`
FieldVerify ==
    /\ fpc = "verify"
    /\ verified' = verify(filter, versions)
    /\ fpc' = IF verified'.ok THEN "matches" ELSE "err"
    /\ UNCHANGED <<versions, version, filter, matched>>
    /\ UNCHANGED callVars
    /\ UNCHANGED attrVars
    /\ UNCHANGED parseVars

\* `if !filter.matches(versions, version) { return Ok(None); }` and the
\* serialization of the field that follows otherwise.
FieldMatches ==
    /\ fpc = "matches"
    /\ IF matches_panics(filter, versions, version)
       THEN /\ fpc' = "panic"
            /\ UNCHANGED matched
       ELSE /\ matched' = matches(filter, versions, version)
            /\ fpc' = IF matched' THEN "some" ELSE "none"
    /\ UNCHANGED <<versions, version, filter, verified>>
    /\ UNCHANGED callVars
    /\ UNCHANGED attrVars
    /\ UNCHANGED parseVars

NextFilter == FieldVerify \/ FieldMatches

SpecFilter == InitFilter /\ [][NextFilter]_vars

\* ------------------------------------------------------------------------
\* versioning.rs, get_version_attr and generate_attrs: the attributes of
\* one node, read for its filter and then written to the output
\* ------------------------------------------------------------------------

\* `#[version]` and `#[version = ".."]`, which are a `Meta::Path` and a
\* `Meta::NameValue` whose path is `version`, and `#[cfg(..)]`, a
\* `Meta::List` whose path is not.
VersionPathAttr      == [path |-> "version", meta |-> "Path",      args |-> NoArgs]
VersionNameValueAttr == [path |-> "version", meta |-> "NameValue", args |-> NoArgs]
CfgAttr              == [path |-> "cfg",     meta |-> "List",      args |-> NoArgs]

\* The attributes a node's list is made of, and the lists explored.
NodeAttrs ==
    { DocAttr, CfgAttr, VersionPathAttr, VersionNameValueAttr, BadVersionAttr,
      VersionAttr(Version(<<"1">>)), VersionAttr(AtLeast(<<"2">>)) }

NodeAttrLists == UNION { [1..n -> NodeAttrs] : n \in 0..MaxAttrs }

InitAttrs ==
    /\ node_attrs \in NodeAttrLists
    /\ apc = "read"
    /\ found = Ok(<<>>)
    /\ kept = <<>>
    /\ versions = <<>>
    /\ CallIdle
    /\ FilterIdle
    /\ ParseIdle

\* `let filter = get_version_attr(&attrs)?;` (the filter found is verified
\* and matched as FieldVerify and FieldMatches do; here the node is kept)
GetVersionAttr ==
    /\ apc = "read"
    /\ found' = get_version_attr(node_attrs)
    /\ apc' = IF found'.err # "" THEN "err" ELSE "write"
    /\ UNCHANGED <<node_attrs, kept, versions>>
    /\ UNCHANGED callVars
    /\ UNCHANGED filterVars
    /\ UNCHANGED parseVars

\* `let attrs = generate_attrs(&attrs);` and the `quote!` that puts them
\* in front of the node.
GenerateAttrs ==
    /\ apc = "write"
    /\ kept' = generate_attrs(node_attrs)
    /\ apc' = "done"
    /\ UNCHANGED <<node_attrs, found, versions>>
    /\ UNCHANGED callVars
    /\ UNCHANGED filterVars
    /\ UNCHANGED parseVars

NextAttrs == GetVersionAttr \/ GenerateAttrs

SpecAttrs == InitAttrs /\ [][NextAttrs]_vars

\* ------------------------------------------------------------------------
\* version.rs, impl Parse for VersionFilter: the tokens of one
\* `#[version(...)]`, parsed as `l.parse_args()` does
\* ------------------------------------------------------------------------

\* The tokens of a filter: a string literal, an identifier followed by a
\* parenthesized, comma-separated list of such tokens, or a token that is
\* neither (a punctuation mark, a number).
LitStr(text)       == [tok |-> "LitStr", name |-> "",   text |-> text, inner |-> <<>>]
Ident(name, inner) == [tok |-> "Ident",  name |-> name, text |-> <<>>, inner |-> inner]
Punct              == [tok |-> "Punct",  name |-> "",   text |-> <<>>, inner |-> <<>>]

\* The identifiers `parse` compares `ident` with.
ParsedIdents == { "mne", "min", "mxe", "max", "not", "any", "all" }

\* The identifiers given to it: those, the names `min_excl` and `max_excl`
\* that examples/ordered.rs writes, and one that is no operator at all.
InputIdents == ParsedIdents \cup { "min_excl", "max_excl", "since" }

\* The token trees of at most the given depth.
RECURSIVE TokenTrees(_)
TokenTrees(depth) ==
    { LitStr(<<"1">>), Punct }
        \cup (IF depth = 0 THEN {}
              ELSE { Ident(name, inner) :
                         name \in InputIdents,
                         inner \in SeqsUpTo(TokenTrees(depth - 1), MaxGroupLen) })

\* syn's own diagnostics: a token that is not the string literal asked
\* for, and tokens left between the parentheses when the buffer is dropped.
ExpectedLitStr  == "expected string literal"
UnexpectedToken == "unexpected token"
UnknownOperator == "Unknown operator function"

\* `parenthesized!(contents in input); let version: LitStr =
\* contents.parse()?; Ok(Self::<op>(version))`
parse_version(op, inner) ==
    IF inner = <<>> \/ inner[1].tok # "LitStr" THEN Err(ExpectedLitStr, <<>>)
    ELSE IF Len(inner) > 1 THEN Err(UnexpectedToken, <<>>)
    ELSE Ok(<< [op |-> op, lit |-> inner[1].text, args |-> <<>>] >>)

RECURSIVE parse(_)
RECURSIVE parse_terminated(_, _, _)

\* `contents.parse_terminated(VersionFilter::parse, Token![,])?`
parse_terminated(inner, i, filters) ==
    IF i > Len(inner) THEN Ok(<< filters >>)
    ELSE LET r == parse(inner[i])
         IN  IF r.err # "" THEN r
             ELSE parse_terminated(inner, i + 1, Append(filters, r.some[1]))

\* `Ok(Self::Not(..))`, `Ok(Self::Any(..))`, `Ok(Self::All(..))` around
\* what was parsed between the parentheses.
parse_around(op, r) ==
    IF r.err # "" THEN r
    ELSE IF op = "not" THEN Ok(<< Not(r.some[1]) >>)
    ELSE IF op = "any" THEN Ok(<< Any(r.some[1]) >>)
    ELSE Ok(<< All(r.some[1]) >>)

\* `VersionFilter::parse`
parse(t) ==
    IF t.tok = "LitStr" THEN Ok(<< Version(t.text) >>)
    ELSE IF t.tok # "Ident" THEN Err(FilterParseError, <<>>)
    ELSE IF t.name = "mne" THEN parse_version("AtLeastExcl", t.inner)
    ELSE IF t.name = "min" THEN parse_version("AtLeast", t.inner)
    ELSE IF t.name = "mxe" THEN parse_version("AtMostExcl", t.inner)
    ELSE IF t.name = "max" THEN parse_version("AtMost", t.inner)
    ELSE IF t.name = "not"
    THEN IF t.inner = <<>> THEN Err(FilterParseError, <<>>)
         ELSE IF Len(t.inner) > 1 /\ parse(t.inner[1]).err = "" THEN Err(UnexpectedToken, <<>>)
         ELSE parse_around("not", parse(t.inner[1]))
    ELSE IF t.name \in { "any", "all" }
    THEN parse_around(t.name, parse_terminated(t.inner, 1, <<>>))
    ELSE Err(UnknownOperator, <<>>)

InitParse ==
    /\ input \in TokenTrees(MaxTokenDepth)
    /\ ppc = "parse"
    /\ parsed = Ok(<<>>)
    /\ versions = <<>>
    /\ CallIdle
    /\ FilterIdle
    /\ AttrsIdle

\* `l.parse_args()` of get_version_attr, which runs `VersionFilter::parse`
\* on the tokens between the parentheses.
ParseArgs ==
    /\ ppc = "parse"
    /\ parsed' = parse(input)
    /\ ppc' = IF parsed'.err # "" THEN "err" ELSE "ok"
    /\ UNCHANGED <<input, versions>>
    /\ UNCHANGED callVars
    /\ UNCHANGED filterVars
    /\ UNCHANGED attrVars

NextParse == ParseArgs

SpecParse == InitParse /\ [][NextParse]_vars

\* ------------------------------------------------------------------------
\* Properties of the filter language (checked under SpecFilter)
\* ------------------------------------------------------------------------

\* The field's filter has been verified and evaluated for `version`.
Evaluated == fpc \in { "some", "none" }

\* The position of a name in the version list, counted as the number of
\* leading entries that differ from it.
IndexOf(name) ==
    1 + Cardinality({ j \in 1..Len(versions) : \A k \in 1..j : versions[k] # name })

\* `prefix` followed by some rest gives `s`.
IsPrefixOf(prefix, s) ==
    /\ Len(prefix) <= Len(s)
    /\ SubSeq(s, 1, Len(prefix)) = prefix

\* The operators without sub-expressions that occur anywhere in a filter.
RECURSIVE AtomsOf(_)
AtomsOf(f) ==
    IF f.op \in PositionalOps \cup { "Version" } THEN { f }
    ELSE UNION { AtomsOf(f.args[i]) : i \in 1..Len(f.args) }

\* C1: Any(L) evaluates true iff at least one element of L evaluates true
\* for the candidate; All(L) evaluates true iff L is non-empty and every
\* element evaluates true; so Any([]) and All([]) are both false.
C1_AnyAll ==
    Evaluated =>
        /\ filter.op = "Any" =>
              (matched <=> \E i \in 1..Len(filter.args) :
                               matches(filter.args[i], versions, version))
        /\ filter.op = "All" =>
              (matched <=> /\ filter.args # <<>>
                           /\ \A i \in 1..Len(filter.args) :
                                  matches(filter.args[i], versions, version))
        /\ (filter.op \in { "Any", "All" } /\ filter.args = <<>>) => ~matched

\* C1 witness: a two-element disjunction that is true although its first
\* element is false.
C1_Witness ==
    /\ Evaluated
    /\ filter.op = "Any"
    /\ Len(filter.args) = 2
    /\ ~matches(filter.args[1], versions, version)
    /\ matched

\* C2: for a name of the version list, AtLeast is index(v) >= index(name),
\* AtLeastExcl is >, AtMost is <=, AtMostExcl is <, with index the position
\* in the version list as the caller wrote it.
C2_Positional ==
    (Evaluated /\ filter.op \in PositionalOps) =>
        LET v == IndexOf(version)
            n == IndexOf(filter.lit)
        IN  /\ filter.op = "AtLeast"     => (matched <=> v >= n)
            /\ filter.op = "AtLeastExcl" => (matched <=> v > n)
            /\ filter.op = "AtMost"      => (matched <=> v <= n)
            /\ filter.op = "AtMostExcl"  => (matched <=> v < n)

\* C2 witness: "1" listed after "10" is at least "10", against the order of
\* the strings themselves.
C2_Witness ==
    /\ Evaluated
    /\ versions = << <<"1", "0">>, <<"1">> >>
    /\ version = <<"1">>
    /\ filter = AtLeast(<<"1", "0">>)
    /\ matched

\* C3: a version string evaluates true iff the candidate's name starts with
\* it; the empty string passes verify and is true for every version, so the
\* field it is attached to is never pruned.
C3_Match ==
    /\ (Evaluated /\ filter.op = "Version") =>
           (matched <=> IsPrefixOf(filter.lit, version))
    /\ (filter = Version(<<>>)) =>
           /\ fpc \notin { "err", "none", "panic" }
           /\ fpc # "verify" => verified.ok

\* C3 witness: "1" matches the version "10", of which it is a proper prefix.
C3_Witness ==
    /\ filter = Version(<<"1">>)
    /\ version = <<"1", "0">>
    /\ fpc = "some"

\* C4: Not(e) evaluates to the negation of e.
C4_Not ==
    (Evaluated /\ filter.op = "Not") =>
        (matched <=> ~matches(filter.args[1], versions, version))

\* C4 witness: the negation of the empty conjunction is true.
C4_Witness ==
    /\ filter = Not(All(<<>>))
    /\ fpc = "some"

\* C5 as claimed: verify never fails on a plain version string.
C5_MatchNeverFails ==
    filter.op = "Version" => fpc # "err"

\* C5 as the code has it: verify on a plain version string succeeds iff the
\* string is a prefix of at least one entry of the version list, and fails
\* with the unknown-version error carrying the string otherwise.
C5_MatchVerified ==
    (fpc # "verify" /\ filter.op = "Version") =>
        /\ verified.ok <=> \E i \in 1..Len(versions) : IsPrefixOf(filter.lit, versions[i])
        /\ ~verified.ok => (verified.ver = filter.lit /\ fpc = "err")

\* C5 witness: a version string that no entry starts with is rejected.
C5_Witness ==
    /\ filter.op = "Version"
    /\ fpc = "err"
    /\ verified = VerifyErr(filter.lit)

\* C6: verify on a positional operator succeeds iff its name equals an entry
\* of the version list (a prefix of an entry is not enough) and otherwise
\* fails with the error carrying the name; verify on Not, Any and All fails
\* iff it fails on a sub-expression, however deep.
C6_Verify ==
    fpc # "verify" =>
        /\ filter.op \in PositionalOps =>
              /\ verified.ok <=> \E i \in 1..Len(versions) : versions[i] = filter.lit
              /\ ~verified.ok => verified.ver = filter.lit
        /\ filter.op \in { "Not", "Any", "All" } =>
              /\ verified.ok <=> \A a \in AtomsOf(filter) : verify(a, versions).ok
              /\ verified.ok <=> \A i \in 1..Len(filter.args) :
                                     verify(filter.args[i], versions).ok
        /\ (fpc = "err") <=> ~verified.ok

\* C6 witness: a bound naming "1" is rejected by a list that holds only
\* "10", and so is a filter that holds such a bound two levels down.
C6_Witness ==
    /\ versions = << <<"1", "0">> >>
    /\ fpc = "err"
    /\ \/ filter = AtLeast(<<"1">>)
       \/ filter = Not(Any(<< AtMost(<<"1">>) >>))

\* ------------------------------------------------------------------------
\* Properties of the filtering of an item tree (checked under Spec)
\* ------------------------------------------------------------------------

\* The nodes of a tree.
RECURSIVE AllNodes(_)
AllNodes(node) == { node } \cup UNION { AllNodes(node.items[i]) : i \in 1..Len(node.items) }

\* A node's name is the path to it: the nodes above a node, and those below.
ProperAncestors(n) ==
    { a \in AllNodes(item) : a.ident # n.ident /\ IsPrefixOf(a.ident, n.ident) }

\* The filter a node is tagged with: that of the first `#[version(...)]`
\* among its attributes.
VersionAttrsAt(n) ==
    { i \in 1..Len(n.attrs) : n.attrs[i].path = "version" /\ n.attrs[i].meta = "List" }
HasFilter(n) == VersionAttrsAt(n) # {}
OwnFilter(n) ==
    n.attrs[CHOOSE i \in VersionAttrsAt(n) : \A j \in VersionAttrsAt(n) : i <= j].args

\* The node's own filter parses; it is verified by the version list; it
\* lets the version through.
Parses(n) == HasFilter(n) => OwnFilter(n) # Unparsable
Verifies(n) == (HasFilter(n) /\ Parses(n)) => verify(OwnFilter(n), versions).ok
Passes(n, v) == HasFilter(n) => (Parses(n) /\ matches(OwnFilter(n), versions, v))

\* A filter holds a positional operator that names no entry of the list.
NamesUnknownVersion(n) ==
    /\ HasFilter(n)
    /\ Parses(n)
    /\ \E a \in AtomsOf(OwnFilter(n)) :
           /\ a.op \in PositionalOps
           /\ \A i \in 1..Len(versions) : versions[i] # a.lit

\* The node is looked at when the tree is filtered for v: every node above it
\* is kept for v, and the item is not one that is refused before its members
\* are looked at.
Visited(n, v) ==
    /\ \A a \in ProperAncestors(n) : Parses(a) /\ Verifies(a) /\ Passes(a, v)
    /\ n.ident # item.ident => item.kind \notin { "ForeignMod", "Impl" }

\* The order in which the nodes of the tree are looked at: a node before
\* the nodes below it, and before the nodes that follow it in a list.
LabelIndex(l) == CHOOSE j \in 1..Len(Labels) : Labels[j] = l
ComesBefore(m, n) ==
    \/ m.ident # n.ident /\ IsPrefixOf(m.ident, n.ident)
    \/ \E k \in 1..Len(m.ident) :
           /\ k <= Len(n.ident)
           /\ SubSeq(m.ident, 1, k - 1) = SubSeq(n.ident, 1, k - 1)
           /\ m.ident[k] # n.ident[k]
           /\ LabelIndex(m.ident[k]) < LabelIndex(n.ident[k])

\* The filtering stops at the node n when the tree is filtered for the i-th
\* version: n is looked at, its filter does not parse or is not verified,
\* and this is so of no node looked at before it, for this version or an
\* earlier one.
Sound(n) == Parses(n) /\ Verifies(n)
StopsAt(n, i) ==
    /\ Visited(n, versions[i])
    /\ ~Sound(n)
    /\ \A m \in AllNodes(item) : (ComesBefore(m, n) /\ Visited(m, versions[i])) => Sound(m)
    /\ \A j \in 1..(i - 1) : \A m \in AllNodes(item) : Visited(m, versions[j]) => Sound(m)

\* The variants emitted: the item as filtered for a version is the variant
\* itself, or the one node in the module wrapped around it.
Emitted == result.out
FilteredItem(variant) ==
    IF item.kind # "Mod" \/ opts.nest_toplevel_modules THEN variant.items[1] ELSE variant

\* The nodes of a variant that come from the item's nested nodes, and the
\* node of the variant that has the name of the node n.
NestedOf(variant) == AllNodes(FilteredItem(variant)) \ { FilteredItem(variant) }
OutputOf(n, variant) ==
    IF n.ident = item.ident THEN FilteredItem(variant)
    ELSE CHOOSE o \in NestedOf(variant) : o.ident = n.ident
IsIn(n, variant) ==
    n.ident = item.ident \/ \E o \in NestedOf(variant) : o.ident = n.ident

\* The names of the nested nodes of n that pass for v, in their order.
KeptAt(n, v) == { i \in 1..Len(n.items) : Passes(n.items[i], v) }
KeptIdents(n, v) ==
    [k \in 1..Cardinality(KeptAt(n, v)) |->
        n.items[CHOOSE i \in KeptAt(n, v) :
                    Cardinality({ j \in KeptAt(n, v) : j <= i }) = k].ident]
IdentsOf(items) == [k \in 1..Len(items) |-> items[k].ident]

\* C7 as claimed, for a version list that is not empty and an item that is
\* not refused for its kind: a positional filter that names an unknown
\* version, on any node of the tree, makes the invocation fail with the
\* unknown-version diagnostic, and nothing is emitted.
C7_UnknownAlwaysRejected ==
    (/\ pc = "done"
     /\ versions # <<>>
     /\ item.kind \notin { "ForeignMod", "Impl" }
     /\ \E n \in AllNodes(item) : NamesUnknownVersion(n))
        => (result.err = UnknownVersion /\ result.out = <<>>)

\* C7 as the code has it: the invocation fails with the unknown-version
\* diagnostic, and emits nothing, iff for some version of the list a node
\* whose filter is not verified is looked at, the filtering having got that
\* far; a node below one that is filtered out for every version is never
\* looked at.
C7_VisitedUnknownRejected ==
    pc = "done" =>
        /\ (result.err = UnknownVersion) <=>
               \E i \in 1..Len(versions) : \E n \in AllNodes(item) :
                   StopsAt(n, i) /\ Parses(n)
        /\ result.err # "" => result.out = <<>>

\* C7 witness: the invocation fails on the second version, for a node two
\* levels down, after a variant was built for the first version.
C7_Witness ==
    /\ pc = "done"
    /\ result.err = UnknownVersion
    /\ result.out = <<>>
    /\ impls # <<>>
    /\ \E n \in AllNodes(item) :
           /\ Len(n.ident) = 3
           /\ NamesUnknownVersion(n)
           /\ \A a \in ProperAncestors(n) : Parses(a) /\ Verifies(a)

\* C8 as claimed: a version list in which a name repeats is refused and
\* nothing is emitted, so no two variants emitted have the same name.
C8_DuplicateRejected ==
    pc = "done" =>
        /\ (\E i, j \in 1..Len(attrs) :
                i # j /\ attrs[i].meta = "Path" /\ attrs[i] = attrs[j])
              => (result.err # "" /\ result.out = <<>>)
        /\ \A k, l \in 1..Len(Emitted) : k # l => Emitted[k].ident # Emitted[l].ident

\* C9: in the variant of a version, a node whose own filter is false for the
\* version is absent with everything below it, whatever its descendants are
\* tagged with; of the items nested in a module that is kept, those whose
\* filter is true are there, in their order; a node tagged All([]) is in no
\* variant.
C9_Pruned ==
    \A k \in 1..Len(Emitted) :
        LET variant == Emitted[k]
            v == variant.ident
        IN  /\ Passes(item, v)
            /\ \A n \in AllNodes(item) :
                   /\ IsIn(n, variant) <=>
                          (Passes(n, v) /\ \A a \in ProperAncestors(n) : Passes(a, v))
                   /\ (HasFilter(n) /\ OwnFilter(n) = All(<<>>)) => ~IsIn(n, variant)
                   /\ (n.kind = "Mod" /\ IsIn(n, variant)) =>
                          IdentsOf(OutputOf(n, variant).items) = KeptIdents(n, v)

\* C9 witness: a variant is emitted for a module in which a nested module is
\* tagged All([]) and holds an item with no filter of its own.
C9_Witness ==
    /\ Emitted # <<>>
    /\ item.kind = "Mod"
    /\ \E n \in AllNodes(item) :
           /\ n.kind = "Mod"
           /\ HasFilter(n) /\ OwnFilter(n) = All(<<>>)
           /\ n.items # <<>>
           /\ ~HasFilter(n.items[1])

\* C10: in the variant of a version, the fields of a struct that is there are
\* those without a filter and those whose filter is true for the version, in
\* their order; a struct none of whose fields is left is there all the same.
C10_StructFields ==
    \A k \in 1..Len(Emitted) :
        LET variant == Emitted[k]
            v == variant.ident
        IN  \A n \in AllNodes(item) :
                n.kind = "Struct" =>
                    /\ IsIn(n, variant) <=>
                           (Passes(n, v) /\ \A a \in ProperAncestors(n) : Passes(a, v))
                    /\ IsIn(n, variant) =>
                           /\ OutputOf(n, variant).kind = "Struct"
                           /\ IdentsOf(OutputOf(n, variant).items) = KeptIdents(n, v)
                           /\ \A f \in 1..Len(n.items) :
                                  (\E o \in 1..Len(OutputOf(n, variant).items) :
                                       OutputOf(n, variant).items[o].ident = n.items[f].ident)
                                  <=> (~HasFilter(n.items[f]) \/
                                       (Parses(n.items[f]) /\
                                        matches(OwnFilter(n.items[f]), versions, v)))

\* C10 witness: for the versions "1", "10", a struct with a field for "1"
\* only and a field for "10" only has exactly the first field in the first
\* variant and exactly the second in the second.
C10_Witness ==
    /\ versions = << <<"1">>, <<"1", "0">> >>
    /\ item.kind = "Struct"
    /\ Len(item.items) = 2
    /\ HasFilter(item.items[1]) /\ OwnFilter(item.items[1]) = AtMost(<<"1">>)
    /\ HasFilter(item.items[2]) /\ OwnFilter(item.items[2]) = Version(<<"1", "0">>)
    /\ Len(Emitted) = 2
    /\ IdentsOf(FilteredItem(Emitted[1]).items) = << item.items[1].ident >>
    /\ IdentsOf(FilteredItem(Emitted[2]).items) = << item.items[2].ident >>

\* ------------------------------------------------------------------------
\* Properties of call: the variants emitted (checked under Spec)
\* ------------------------------------------------------------------------

\* The versions among the first `upto` of the list for which the item passes
\* its own filter, in their order.
PassingUpTo(upto) == { i \in 1..upto : Passes(item, versions[i]) }
KeptVersions(upto) ==
    [k \in 1..Cardinality(PassingUpTo(upto)) |->
        versions[CHOOSE i \in PassingUpTo(upto) :
                     Cardinality({ j \in PassingUpTo(upto) : j <= i }) = k]]

\* The macro's input is made of versions and of settings of the two options
\* to true or false.
IsVersion(meta) == meta.meta = "Path" /\ meta.ident # <<>>
IsSetting(meta) ==
    /\ meta.meta = "NameValue"
    /\ meta.key \in { "features", "nest_toplevel_modules" }
    /\ meta.value \in { "true", "false" }
InputValid == \A i \in 1..Len(attrs) : IsVersion(attrs[i]) \/ IsSetting(attrs[i])

\* Nothing makes the invocation fail: the input is valid, the filter of
\* every node looked at parses and is verified, and the item is not a block
\* that is refused.
NoFailure ==
    /\ InputValid
    /\ \A i \in 1..Len(versions) : \A n \in AllNodes(item) : Visited(n, versions[i]) => Sound(n)
    /\ item.kind \in { "ForeignMod", "Impl" } =>
           \A i \in 1..Len(versions) : ~Passes(item, versions[i])

\* C11: the variants emitted are those of the versions for which the item
\* passes its own filter, one per position of the list and in the order of
\* the list; a version for which the item is filtered out is left out without
\* a diagnostic, and the versions after it are still emitted.
C11_EmittedVersions ==
    /\ pc = "loop" => IdentsOf(impls) = KeptVersions(vi - 1)
    /\ pc = "done" =>
           /\ (result.err = "") <=> NoFailure
           /\ result.err = "" => IdentsOf(Emitted) = KeptVersions(Len(versions))

\* C11 witness: of the versions "1", "10", the item is filtered out for the
\* first and emitted for the second.
C11_Witness ==
    /\ pc = "done"
    /\ result.err = ""
    /\ versions = << <<"1">>, <<"1", "0">> >>
    /\ ~Passes(item, versions[1])
    /\ IdentsOf(Emitted) = << <<"1", "0">> >>

\* The version of the k-th variant emitted.
VersionOf(k) == KeptVersions(Len(versions))[k]

C13_AllOrNothing ==
    pc = "done" =>
        /\ result.err # "" => result.out = <<>>
        /\ result.err = "" =>
               /\ vi = Len(versions) + 1
               /\ result.out = impls
               /\ Len(result.out) = Cardinality(PassingUpTo(Len(versions)))

\* C13 witness: a filter that does not parse is met for the second version,
\* after a variant was built for the first, and nothing is returned.
C13_Witness ==
    /\ pc = "done"
    /\ result.err = FilterParseError
    /\ vi = 2
    /\ impls # <<>>
    /\ result.out = <<>>

\* The diagnostic for an impl block or a foreign block given to the macro.
BareBlocks == { "ForeignMod", "Impl" }
BareDiagnostic == IF item.kind = "Impl" THEN ImplIsBare ELSE ForeignModIsBare

\* C14 as claimed, for a block whose own filter, if it has one, parses and
\* is verified: with a version list that is not empty, an impl block or a
\* foreign block given to the macro is refused, and nothing is emitted.
C14_BareRootRefused ==
    (/\ pc = "done"
     /\ versions # <<>>
     /\ item.kind \in BareBlocks
     /\ Sound(item))
        => (result.err = BareDiagnostic /\ result.out = <<>>)

\* C14 as the code has it: for an impl block or a foreign block given to the
\* macro nothing is ever emitted; the block is refused iff its own filter
\* parses, is verified and is true for some version of the list, since the
\* filter is looked at first; a block that is filtered out for every version
\* gives no diagnostic at all.
C14_BareRootRefusedWhenKept ==
    (pc = "done" /\ item.kind \in BareBlocks) =>
        /\ result.out = <<>>
        /\ (result.err = BareDiagnostic) <=>
               (Sound(item) /\ \E i \in 1..Len(versions) : Passes(item, versions[i]))
        /\ (result.err = "") <=>
               /\ InputValid
               /\ \/ versions = <<>>
                  \/ Sound(item) /\ \A i \in 1..Len(versions) : ~Passes(item, versions[i])

\* C14 witness: an impl block or a foreign block is filtered out for the
\* first version and refused for the second.
C14_Witness ==
    /\ pc = "done"
    /\ item.kind \in BareBlocks
    /\ vi = 2
    /\ ~Passes(item, versions[1])
    /\ result.err = BareDiagnostic

\* The value of the last `features = ...` among the macro's arguments is
\* `true`.
FeatureSettings ==
    { i \in 1..Len(attrs) : attrs[i].meta = "NameValue" /\ attrs[i].key = "features" }
FeaturesRequested ==
    /\ FeatureSettings # {}
    /\ attrs[CHOOSE i \in FeatureSettings : \A j \in FeatureSettings : j <= i].value = "true"

\* The `#[cfg(..)]` attributes of a node.
CfgAttrsOf(o) == { i \in 1..Len(o.attrs) : o.attrs[i].path = "cfg" }

\* C15: with `features = true` every variant emitted carries
\* `#[cfg(feature = "<version>")]` for its own version, as the first
\* attribute of its outermost node (the module wrapped around the item, if
\* there is one) and nowhere else; without the setting no variant carries it.
C15_FeatureGate ==
    \A k \in 1..Len(Emitted) :
        LET variant == Emitted[k]
        IN  IF FeaturesRequested
            THEN /\ variant.attrs # <<>>
                 /\ variant.attrs[1] = CfgFeature(VersionOf(k))
                 /\ CfgAttrsOf(variant) = { 1 }
                 /\ \A o \in AllNodes(variant) \ { variant } : CfgAttrsOf(o) = {}
            ELSE \A o \in AllNodes(variant) : CfgAttrsOf(o) = {}

\* C15 witness: with `features = true`, an item that is not a module is
\* emitted for the versions "1" and "10", in a module tagged for "1" and in
\* a module tagged for "10".
C15_Witness ==
    /\ FeaturesRequested
    /\ item.kind # "Mod"
    /\ Len(Emitted) = 2
    /\ Emitted[1].attrs = << CfgFeature(<<"1">>) >>
    /\ Emitted[2].attrs = << CfgFeature(<<"1", "0">>) >>
    /\ Emitted[1].items[1].ident = item.ident

\* The node n is in the variant iff it passes its filter for v and so does
\* every node above it.
KeptFor(n, v) == Passes(n, v) /\ \A a \in ProperAncestors(n) : Passes(a, v)

\* C16: in the variant of a version, the variants of an enum that is there
\* are those without a filter and those whose filter is true for the version,
\* in their order; the fields of such a variant are filtered like those of a
\* struct and keep their order, and the variant is there, in the shape it
\* was declared in, also when none of its fields is left.
C16_EnumVariants ==
    \A k \in 1..Len(Emitted) :
        \A n \in AllNodes(item) :
            /\ (n.kind = "Enum" /\ IsIn(n, Emitted[k])) =>
                   /\ OutputOf(n, Emitted[k]).kind = "Enum"
                   /\ IdentsOf(OutputOf(n, Emitted[k]).items) = KeptIdents(n, VersionOf(k))
            /\ n.kind = "Variant" =>
                   /\ IsIn(n, Emitted[k]) <=> KeptFor(n, VersionOf(k))
                   /\ IsIn(n, Emitted[k]) =>
                          /\ OutputOf(n, Emitted[k]).kind = "Variant"
                          /\ OutputOf(n, Emitted[k]).fields = n.fields
                          /\ IdentsOf(OutputOf(n, Emitted[k]).items) =
                                 KeptIdents(n, VersionOf(k))
                          /\ \A i \in 1..Len(OutputOf(n, Emitted[k]).items) :
                                 OutputOf(n, Emitted[k]).items[i].kind = "Field"

\* C16 witness: an enum has a variant of two fields, the first for versions
\* up to "1" and the second without a filter; for the versions "1", "10" the
\* variant is emitted with both fields and then with the second only.
C16_Witness ==
    /\ versions = << <<"1">>, <<"1", "0">> >>
    /\ item.kind = "Enum"
    /\ Len(item.items) = 1
    /\ Len(item.items[1].items) = 2
    /\ HasFilter(item.items[1].items[1])
    /\ OwnFilter(item.items[1].items[1]) = AtMost(<<"1">>)
    /\ ~HasFilter(item.items[1].items[2])
    /\ Len(Emitted) = 2
    /\ IdentsOf(FilteredItem(Emitted[1]).items[1].items) = IdentsOf(item.items[1].items)
    /\ IdentsOf(FilteredItem(Emitted[2]).items[1].items) = << item.items[1].items[2].ident >>

\* C17: in the variant of a version, the members of a trait, an impl block
\* or a foreign block that is there are those without a filter and those
\* whose filter is true for the version, in their order; a member without
\* a filter is in every variant the block is in.
C17_Members ==
    \A k \in 1..Len(Emitted) :
        \A n \in AllNodes(item) :
            (n.kind \in { "Trait", "Impl", "ForeignMod" } /\ IsIn(n, Emitted[k])) =>
                /\ OutputOf(n, Emitted[k]).kind = n.kind
                /\ IdentsOf(OutputOf(n, Emitted[k]).items) = KeptIdents(n, VersionOf(k))
                /\ \A i \in 1..Len(n.items) :
                       /\ ~HasFilter(n.items[i]) => IsIn(n.items[i], Emitted[k])
                       /\ IsIn(n.items[i], Emitted[k]) =>
                              OutputOf(n.items[i], Emitted[k]).kind = n.items[i].kind

\* C17 witness: an impl block in a module has a member for "10" only and a
\* member without a filter; for the versions "1", "10" the block is emitted
\* with the second member only and then with both.
C17_Witness ==
    /\ versions = << <<"1">>, <<"1", "0">> >>
    /\ item.kind = "Mod"
    /\ Len(item.items) = 1
    /\ item.items[1].kind = "Impl"
    /\ Len(item.items[1].items) = 2
    /\ HasFilter(item.items[1].items[1])
    /\ OwnFilter(item.items[1].items[1]) = Version(<<"1", "0">>)
    /\ ~HasFilter(item.items[1].items[2])
    /\ Len(Emitted) = 2
    /\ IdentsOf(FilteredItem(Emitted[1]).items[1].items) = << item.items[1].items[2].ident >>
    /\ IdentsOf(FilteredItem(Emitted[2]).items[1].items) = IdentsOf(item.items[1].items)

\* No node of the item has an attribute whose path is `version`.
Unannotated ==
    \A n \in AllNodes(item) : \A i \in 1..Len(n.attrs) : n.attrs[i].path # "version"

\* The node with the visibility of every node of it blanked.
RECURSIVE WithoutVis(_)
WithoutVis(n) ==
    [n EXCEPT !.vis = "", !.items = [i \in 1..Len(n.items) |-> WithoutVis(n.items[i])]]

\* The item as it was written, as the variant of the k-th version: a module
\* that is not nested is itself the variant, so it is named after the
\* version and carries the variant's feature gate.
SourceFor(k) ==
    IF item.kind = "Mod" /\ ~opts.nest_toplevel_modules
    THEN [item EXCEPT !.ident = versions[k],
                      !.attrs = (IF opts.features THEN << CfgFeature(versions[k]) >> ELSE <<>>)
                                    \o item.attrs]
    ELSE item

\* C20: an item without a filter annotation on any of its nodes, other
\* than an impl block or a foreign block, is emitted for every version of
\* the list, and what is emitted for a version is the item as it was
\* written, whatever the version: same attributes, names, payloads and
\* nested nodes, the visibility apart (and, for a module that is itself
\* the variant, the variant's name and feature gate).
C20_UnannotatedIdentical ==
    (pc = "done" /\ Unannotated /\ item.kind \notin BareBlocks) =>
        /\ result.err = ""
        /\ Len(Emitted) = Len(versions)
        /\ \A k \in 1..Len(Emitted) :
               WithoutVis(FilteredItem(Emitted[k])) = WithoutVis(SourceFor(k))

\* ------------------------------------------------------------------------
\* Properties of a node's attributes (checked under SpecAttrs)
\* ------------------------------------------------------------------------

\* The positions of the filter annotations in the node's list: the
\* attributes get_version_attr recognizes, `#[version(...)]`.
FilterAnnotations ==
    { i \in 1..Len(node_attrs) :
          node_attrs[i].meta = "List" /\ node_attrs[i].path = "version" }

\* The positions of the attributes whose path is `version`, in any form.
VersionNamed == { i \in 1..Len(node_attrs) : node_attrs[i].path = "version" }

\* The smallest position of a set of positions.
First(S) == CHOOSE i \in S : \A j \in S : i <= j

\* The list of the node's attributes at the positions other than S, in
\* their order.
Without(S) ==
    LET rest     == (1..Len(node_attrs)) \ S
        nth(k)   == CHOOSE i \in rest : Cardinality({ j \in rest : j < i }) = k - 1
    IN  [k \in 1..Cardinality(rest) |-> node_attrs[nth(k)]]

\* What is honored is the first filter annotation: its filter, or the
\* diagnostic when its arguments do not parse; nothing without one.
FirstHonored ==
    IF FilterAnnotations = {} THEN found = Ok(<<>>)
    ELSE IF node_attrs[First(FilterAnnotations)].args = Unparsable
    THEN found.err = FilterParseError /\ found.some = <<>>
    ELSE found = Ok(<< node_attrs[First(FilterAnnotations)].args >>)

\* C18 as stated: the first filter annotation is honored, and the
\* attributes put on the output node are all those of the node but the
\* first filter annotation, later filter annotations included, in order.
C18_OnlyFirstDetached ==
    /\ apc \in { "write", "err", "done" } => FirstHonored
    /\ apc = "done" =>
           kept = Without(IF FilterAnnotations = {} THEN {} ELSE { First(FilterAnnotations) })

\* C18, amended: the first filter annotation is honored, a diagnostic
\* leaves nothing written, and the attributes put on the output node are
\* those of the node whose path is not `version`, unchanged and in order:
\* every filter annotation, and every other attribute named `version`, is
\* left out.
C18_FirstHonoredAllDetached ==
    /\ apc \in { "write", "err", "done" } => FirstHonored
    /\ apc = "err" <=> (found.err # "")
    /\ apc # "done" => kept = <<>>
    /\ apc = "done" => kept = Without(VersionNamed)

\* C18 witness: of two filter annotations with an attribute between them,
\* the filter of the first is honored and only the attribute between them
\* is written.
C18_Witness ==
    /\ apc = "done"
    /\ Len(node_attrs) = 3
    /\ FilterAnnotations = { 1, 3 }
    /\ node_attrs[1].args # node_attrs[3].args
    /\ found = Ok(<< node_attrs[1].args >>)
    /\ kept = << node_attrs[2] >>

\* C19: get_version_attr finds no filter annotation in the attributes
\* that were written for a node.
C19_Idempotent == apc = "done" => get_version_attr(kept) = Ok(<<>>)

\* C19 witness: a filter was found in a list with a second filter
\* annotation after it and an attribute that stays, and none is found in
\* what was written.
C19_Witness ==
    /\ apc = "done"
    /\ found.some # <<>>
    /\ Cardinality(FilterAnnotations) = 2
    /\ kept # <<>>
    /\ get_version_attr(node_attrs) # Ok(<<>>)
    /\ get_version_attr(kept) = Ok(<<>>)

\* ------------------------------------------------------------------------
\* Properties of the filter parser (checked under SpecParse)
\* ------------------------------------------------------------------------

\* The operator names of the filter language, and the variant each of the
\* four bounds is parsed to.
OperatorNames == { "not", "any", "all", "min", "max", "min_excl", "max_excl" }
BoundOf(name) ==
    CASE name = "min" -> "AtLeast"
      [] name = "max" -> "AtMost"
      [] name = "min_excl" -> "AtLeastExcl"
      [] name = "max_excl" -> "AtMostExcl"

\* The input is an operator applied to one string literal, which is a
\* well-formed argument list for every operator.
OperatorOnLiteral ==
    /\ input.tok = "Ident"
    /\ Len(input.inner) = 1
    /\ input.inner[1].tok = "LitStr"

\* C21: an operator applied to a string literal is parsed iff its name is
\* one of not, any, all, min, max, min_excl and max_excl, any other name
\* being an error; and min, max, min_excl and max_excl give AtLeast,
\* AtMost, AtLeastExcl and AtMostExcl of the literal.
C21_OperatorNames ==
    (ppc # "parse" /\ OperatorOnLiteral) =>
        /\ parsed.err = "" <=> input.name \in OperatorNames
        /\ input.name \in { "min", "max", "min_excl", "max_excl" } =>
               parsed = Ok(<< [op |-> BoundOf(input.name), lit |-> input.inner[1].text,
                               args |-> <<>>] >>)

\* ------------------------------------------------------------------------
\* Properties of parse_input (checked under Spec)
\* ------------------------------------------------------------------------

\* The versions of the input in their order, and the value an option is
\* left with: that of its last setting, false without one.
VersionMetas == { i \in 1..Len(attrs) : IsVersion(attrs[i]) }
ListedVersions ==
    [k \in 1..Cardinality(VersionMetas) |->
        attrs[CHOOSE i \in VersionMetas :
                  Cardinality({ j \in VersionMetas : j <= i }) = k].ident[1]]
SettingsOfKey(key) ==
    { i \in 1..Len(attrs) : attrs[i].meta = "NameValue" /\ attrs[i].key = key }
LastSetting(key) ==
    /\ SettingsOfKey(key) # {}
    /\ attrs[CHOOSE i \in SettingsOfKey(key) : \A j \in SettingsOfKey(key) : j <= i].value = "true"

\* The first meta of the input that is neither a version nor a setting.
FirstInvalid ==
    CHOOSE i \in 1..Len(attrs) :
        /\ ~(IsVersion(attrs[i]) \/ IsSetting(attrs[i]))
        /\ \A j \in 1..(i - 1) : IsVersion(attrs[j]) \/ IsSetting(attrs[j])
UnknownKey(meta) ==
    meta.meta = "NameValue" /\ meta.key \notin { "features", "nest_toplevel_modules" }
NotBool(meta) ==
    /\ meta.meta = "NameValue"
    /\ meta.key \in { "features", "nest_toplevel_modules" }
    /\ meta.value \notin { "true", "false" }

\* What parse_input does apart from naming an unknown key: the versions
\* are those of the input in its order, the options are false unless set,
\* and an input that is not valid gives the diagnostic of its first
\* invalid meta, no version list and no variant.
InputParsed ==
    pc # "parse" =>
        IF InputValid
        THEN /\ versions = ListedVersions
             /\ opts = [features |-> LastSetting("features"),
                        nest_toplevel_modules |-> LastSetting("nest_toplevel_modules")]
             /\ result.err \notin { UnknownParameter, FeaturesNotBool, NestNotBool }
        ELSE /\ pc = "done"
             /\ versions = <<>>
             /\ impls = <<>>
             /\ result.out = <<>>
             /\ result.err # ""
             /\ UnknownKey(attrs[FirstInvalid]) <=> result.err = UnknownParameter
             /\ NotBool(attrs[FirstInvalid]) <=> result.err \in { FeaturesNotBool, NestNotBool }

\* C22 as stated: the versions of the input are the version list, in the
\* order of the input and wherever the settings are; the options are false
\* unless set; an unknown key gives a diagnostic that names the key and a
\* value that is no boolean gives a diagnostic; a failure leaves no version
\* list and no variant.
C22_UnknownKeyNamed ==
    /\ InputParsed
    /\ (pc # "parse" /\ ~InputValid /\ UnknownKey(attrs[FirstInvalid])) =>
           result.ver = << attrs[FirstInvalid].key >>

\* C22, amended: the same, the diagnostic of an unknown key quoting the
\* source text of the key, which is the key when its span has a source
\* text and `???` when it has none.
C22_UnknownKeyQuoted ==
    /\ InputParsed
    /\ (pc # "parse" /\ ~InputValid /\ UnknownKey(attrs[FirstInvalid])) =>
           result.ver = IF attrs[FirstInvalid].source_text = <<>> THEN << "???" >>
                        ELSE << attrs[FirstInvalid].key >>

\* C22 witness: after a setting, a version and a key that is not known and
\* has no source text, the invocation has failed with the diagnostic of
\* the unknown key quoting `???`, without a version list.
C22_Witness ==
    /\ pc = "done"
    /\ Len(attrs) = 3
    /\ IsSetting(attrs[1])
    /\ IsVersion(attrs[2])
    /\ UnknownKey(attrs[3])
    /\ attrs[3].source_text = <<>>
    /\ result.err = UnknownParameter
    /\ result.ver = << "???" >>
    /\ versions = <<>>
    /\ result.out = <<>>

\* ------------------------------------------------------------------------
\* Properties of call: where the items of a module end up (checked under
\* Spec)
\* ------------------------------------------------------------------------

\* The variant is a module named after the k-th version emitted that holds
\* one module, named as the item is, which holds the items that are kept:
\* an item is reached as `<version>::<module>::<item>`.
ReachedThroughModule(k) ==
    /\ Emitted[k].kind = "Mod"
    /\ Emitted[k].ident = VersionOf(k)
    /\ Len(Emitted[k].items) = 1
    /\ Emitted[k].items[1].kind = "Mod"
    /\ Emitted[k].items[1].ident = item.ident
    /\ IdentsOf(Emitted[k].items[1].items) = KeptIdents(item, VersionOf(k))

\* The variant is a module named after the k-th version emitted that holds
\* the items that are kept themselves: an item is reached as
\* `<version>::<item>`.
ReachedDirectly(k) ==
    /\ Emitted[k].kind = "Mod"
    /\ Emitted[k].ident = VersionOf(k)
    /\ IdentsOf(Emitted[k].items) = KeptIdents(item, VersionOf(k))
    /\ \A i \in 1..Len(Emitted[k].items) : Emitted[k].items[i].ident # item.ident

InIsolation(v) == call_version(item, versions, opts, v).some

\* What an invocation returns, as a function of its two inputs alone.
RECURSIVE VariantsFrom(_, _, _)
VariantsFrom(i, vl, o) ==
    IF i > Len(vl) THEN Ok(<<>>)
    ELSE LET r == call_version(item, vl, o, vl[i])
         IN  IF r.err # "" THEN r
             ELSE LET rest == VariantsFrom(i + 1, vl, o)
                  IN  IF rest.err # "" THEN rest ELSE Ok(r.some \o rest.some)
Returned ==
    LET p == parse_input(attrs)
        r == IF p.err # "" THEN Err(p.err, p.ver) ELSE VariantsFrom(1, p.versions, p.opts)
    IN  [err |-> r.err, ver |-> r.ver, out |-> r.some]

RECURSIVE CountNodes(_)
SumNodes(items) ==
    LET RECURSIVE sum(_)
        sum(i) == IF i > Len(items) THEN 0 ELSE CountNodes(items[i]) + sum(i + 1)
    IN  sum(1)
CountNodes(n) == 1 + SumNodes(n.items)
NamesIn(n) == { m.ident : m \in AllNodes(n) }

\* A step of the invocation goes on to the next version, or ends it; it
\* never goes back to a version or stays at one.
Advances == (vi' = vi + 1 /\ pc' # "done") \/ (pc' = "done" /\ vi' \in { vi, vi + 1 })

\* No node of the item is in a variant twice, and no variant has more nodes
\* than the item.
VisitedOnce ==
    \A k \in 1..Len(impls) :
        /\ CountNodes(FilteredItem(impls[k])) = Cardinality(NamesIn(FilteredItem(impls[k])))
        /\ CountNodes(FilteredItem(impls[k])) <= CountNodes(item)

\* C25: every invocation ends, with the variants or with one diagnostic;
\* until then each step goes on to the next version of the list, so the
\* loop takes at most one turn per version, and no node of the item is put
\* in a variant twice.
C25_Terminates ==
    /\ <>(pc = "done")
    /\ [][Advances]_vars
    /\ [](vi <= Len(versions) + 1 /\ Len(impls) <= Len(versions) /\ VisitedOnce)
    /\ [](pc = "done" => (result.err = "" \/ result.out = <<>>))

\* C25 witness: an invocation on an item with a nested node and two
\* versions has ended with two variants after a turn for each.
C25_Witness ==
    /\ pc = "done"
    /\ Len(versions) = 2
    /\ vi = 3
    /\ item.items # <<>>
    /\ Len(Emitted) = 2
    /\ CountNodes(FilteredItem(Emitted[2])) = 2

\* ------------------------------------------------------------------------
\* Properties of call: the lookups of `matches` (checked under Spec)
\* ------------------------------------------------------------------------

\* The name is an entry of the version list.
Listed(name) == \E j \in 1..Len(versions) : versions[j] = name

\* The filter of the node n is evaluated for the version v: the node is
\* visited for v, and its filter parses and is verified.
EvaluatedAt(n, v) == Visited(n, v) /\ HasFilter(n) /\ Parses(n) /\ Verifies(n)

\* C26: the invocation never ends in the panic of `matches`: whenever the
\* filter of a node is evaluated for a version, it was verified against the
\* same list, the version is an entry of the list, and so is the name of
\* every positional operator in the filter.
C26_NoPanic ==
    /\ result.err # Panicked
    /\ pc = "done" =>
           \A i \in 1..Len(versions) :
               \A n \in AllNodes(item) :
                   EvaluatedAt(n, versions[i]) =>
                       /\ Listed(versions[i])
                       /\ \A a \in AtomsOf(OwnFilter(n)) :
                              a.op \in PositionalOps => Listed(a.lit)
                       /\ ~matches_panics(OwnFilter(n), versions, versions[i])

\* C26 witness: an invocation with two versions has ended without a
\* diagnostic on an item that holds a node with a positional filter, which
\* was evaluated for both versions and kept the node for one.
C26_Witness ==
    /\ pc = "done"
    /\ result.err = ""
    /\ Len(versions) = 2
    /\ Len(item.items) = 1
    /\ HasFilter(item.items[1])
    /\ OwnFilter(item.items[1]).op \in PositionalOps
    /\ EvaluatedAt(item.items[1], versions[1])
    /\ EvaluatedAt(item.items[1], versions[2])
    /\ Len(Emitted) = 2
    /\ FilteredItem(Emitted[1]).items # FilteredItem(Emitted[2]).items

\* ------------------------------------------------------------------------
\* Properties of call: the nodes below the item (checked under Spec)
\* ------------------------------------------------------------------------

\* C27: whether the item is wrapped or not, every node of a variant that
\* comes from a node below the item has the kind, the name and the
\* visibility that node was declared with: only the item itself is made
\* public or named after the version.
C27_DescendantsKept ==
    \A k \in 1..Len(Emitted) :
        \A o \in NestedOf(Emitted[k]) :
            /\ o.ident # VersionOf(k)
            /\ \E n \in AllNodes(item) \ { item } :
                   /\ n.ident = o.ident
                   /\ n.kind = o.kind
                   /\ n.vis = o.vis

\* C27 witness: a module holding a module is given with
\* nest_toplevel_modules; in the variant the outer module is public and the
\* inner one has its own name and the visibility it was declared with.
C27_Witness ==
    /\ opts.nest_toplevel_modules
    /\ item.kind = "Mod"
    /\ Len(item.items) = 1
    /\ item.items[1].kind = "Mod"
    /\ item.items[1].vis = "pub(crate)"
    /\ Len(Emitted) >= 1
    /\ FilteredItem(Emitted[1]).vis = "pub"
    /\ Len(FilteredItem(Emitted[1]).items) = 1
    /\ FilteredItem(Emitted[1]).items[1].vis = "pub(crate)"
    /\ FilteredItem(Emitted[1]).items[1].ident = item.items[1].ident

\* The impl blocks and foreign blocks below the item.
NestedBlocks == { n \in AllNodes(item) \ { item } : n.kind \in BareBlocks }

\* C28: the diagnostic for an impl block or a foreign block is given only
\* for the item itself, whatever the options: an invocation that ends with it
\* was applied to such a block, and a block directly below the item that
\* passes for a version is part of that version's variant.
C28_NestedBlocksAccepted ==
    /\ result.err \in { ForeignModIsBare, ImplIsBare } =>
           (item.kind \in BareBlocks /\ result.err = BareDiagnostic)
    /\ \A k \in 1..Len(Emitted) :
           \A i \in 1..Len(item.items) :
               (item.items[i].kind \in BareBlocks /\ Passes(item.items[i], VersionOf(k)))
                   => IsIn(item.items[i], Emitted[k])

\* C28 witness: a module holding an impl block or a foreign block is given
\* with nest_toplevel_modules, and the invocation ends without a diagnostic
\* and with a variant that holds the block.
C28_Witness ==
    /\ pc = "done"
    /\ result.err = ""
    /\ opts.nest_toplevel_modules
    /\ item.kind = "Mod"
    /\ NestedBlocks # {}
    /\ Len(Emitted) >= 1
    /\ Len(Emitted[1].items) = 1
    /\ Emitted[1].items[1].kind = "Mod"
    /\ \E b \in NestedBlocks : \E j \in 1..Len(Emitted[1].items[1].items) :
           /\ Emitted[1].items[1].items[j].ident = b.ident
           /\ Emitted[1].items[1].items[j].kind = b.kind

\* A module is wrapped around the item in every variant.
Wrapping == item.kind # "Mod" \/ opts.nest_toplevel_modules

\* C29: a module wrapped around the item has the visibility the item was
\* declared with, or none if the item is of a kind without a visibility; the
\* item in it is public if its kind has a visibility; and the modules wrapped
\* around the item for two versions have the same visibility.
C29_WrapperVisibility ==
    Wrapping =>
        /\ \A k \in 1..Len(Emitted) :
               /\ Emitted[k].kind = "Mod"
               /\ Emitted[k].vis =
                      IF item.kind \in NoVisKinds THEN "inherited" ELSE item.vis
               /\ Len(Emitted[k].items) = 1
               /\ Emitted[k].items[1].ident = item.ident
               /\ item.kind \notin NoVisKinds => Emitted[k].items[1].vis = "pub"
               /\ item.kind \in NoVisKinds => Emitted[k].items[1].vis = item.vis
        /\ \A k, j \in 1..Len(Emitted) : Emitted[k].vis = Emitted[j].vis

\* C29 witness: an item declared `pub(crate)` that is not a module is
\* emitted for two versions, each time public and in a `pub(crate)` module.
C29_Witness ==
    /\ item.kind \notin NoVisKinds \cup { "Mod" }
    /\ item.vis = "pub(crate)"
    /\ Len(Emitted) = 2
    /\ Emitted[1].vis = "pub(crate)"
    /\ Emitted[2].vis = "pub(crate)"
    /\ Emitted[1].ident # Emitted[2].ident
    /\ Emitted[1].items[1].vis = "pub"
    /\ Emitted[2].items[1].vis = "pub"

\* ------------------------------------------------------------------------
\* Properties of the filter language: the bounds (checked under SpecFilter)
\* ------------------------------------------------------------------------

\* The filter evaluates for `version` as `other` does.
EvaluatesAs(other) == matched <=> matches(other, versions, version)

\* C30: for a name of the version list and a version of the list, AtLeast
\* of the name evaluates as the negation of AtMostExcl of it, and AtMost as
\* the negation of AtLeastExcl, whichever of the two is the field's filter;
\* so exactly one of an inclusive bound and the exclusive bound on the other
\* side is true.
C30_Complementary ==
    Evaluated =>
        /\ filter.op = "AtLeast" =>
               /\ EvaluatesAs(Not(AtMostExcl(filter.lit)))
               /\ matched # matches(AtMostExcl(filter.lit), versions, version)
        /\ filter.op = "AtMost" =>
               /\ EvaluatesAs(Not(AtLeastExcl(filter.lit)))
               /\ matched # matches(AtLeastExcl(filter.lit), versions, version)
        /\ (filter.op = "Not" /\ filter.args[1].op = "AtMostExcl") =>
               EvaluatesAs(AtLeast(filter.args[1].lit))
        /\ (filter.op = "Not" /\ filter.args[1].op = "AtLeastExcl") =>
               EvaluatesAs(AtMost(filter.args[1].lit))

\* C30 witness: with "10" listed before "1", AtMost("1") is evaluated for
\* "1" itself and is true, where AtLeastExcl("1") is false.
C30_Witness ==
    /\ Evaluated
    /\ versions = << <<"1", "0">>, <<"1">> >>
    /\ version = <<"1">>
    /\ filter = AtMost(<<"1">>)
    /\ matched
    /\ ~matches(AtLeastExcl(<<"1">>), versions, version)

====
